---- MODULE Spec2Model ----
(***************************************************************************)
(* Job aggregation and relevance scoring of backend/app/job_search.py:     *)
(* generate_keywords, merge_results, score_relevance and search_jobs.      *)
(*                                                                         *)
(* Python strings are sequences of one-character strings, so that lower(), *)
(* strip(), split() and the `in` substring test are computed, not assumed. *)
(* A Python value is a record [t, s, n]: t is its type tag, s the text of  *)
(* a str (or the str() of a list/dict object), n the value of an int.      *)
(***************************************************************************)
EXTENDS Integers, Sequences, FiniteSets, TLC

VARIABLES
    pc,            \* position of the call being modelled
    profile,       \* the profile mapping passed in
    min_score,     \* search_jobs: the threshold
    keywords,      \* generate_keywords: the list returned
    location,      \* search_jobs: the effective location
    adapter,       \* search_jobs: the adapter running, 1 Adzuna, 2 Jooble, 3 SerpAPI
    kw_i,          \* the adapter's loop: index of the keyword to query next
    calls,         \* the provider calls made so far: adapter, keyword, location,
                   \* the provider's answer, and whether the pass raised
    fetched,       \* the three adapter outputs, in call order
    all_jobs,      \* merge_results: the list returned
    scored_jobs,   \* search_jobs: the list being built / returned
    job,           \* score_relevance: the job record scored
    relevance,     \* score_relevance: the outcome [raised, score]
    profile2,      \* the profile with one more skill entry (C7)
    relevance2,    \* score_relevance(job, profile2)
    response,      \* search_jobs_endpoint: the HTTP response, once given
    session_storage,  \* main.py: the ids that are keys of the session_storage dict
    session_objects,  \* the session dict made for each id: responses, metadata.completed
    handlers,      \* the /ask_llm and /build_profile requests being served
    asr_model,     \* main.py: _asr_model, 0 for None
    asr_lock,      \* main.py: asr_lock, the task holding it, 0 when free
    asr_tasks,     \* the load_asr_model calls in progress
    asr_loads      \* how many times line 122 constructed a model and stored it

vars == <<pc, profile, min_score, keywords, location, adapter, kw_i, calls, fetched,
          all_jobs, scored_jobs, job, relevance, profile2, relevance2, response,
          session_storage, session_objects, handlers, asr_model, asr_lock, asr_tasks,
          asr_loads>>

serverVars == <<session_storage, session_objects, handlers, asr_model, asr_lock, asr_tasks,
                asr_loads>>

-----------------------------------------------------------------------------
(* Python str operations                                                   *)

UpperChars == <<"A","B","C","D","E","F","G","H","I","J","K","L","M",
                "N","O","P","Q","R","S","T","U","V","W","X","Y","Z">>
LowerChars == <<"a","b","c","d","e","f","g","h","i","j","k","l","m",
                "n","o","p","q","r","s","t","u","v","w","x","y","z">>

LowerChar(c) ==
    IF \E i \in 1..Len(UpperChars) : UpperChars[i] = c
    THEN LowerChars[CHOOSE i \in 1..Len(UpperChars) : UpperChars[i] = c]
    ELSE c

\* str.lower()
Lower(s) == [i \in 1..Len(s) |-> LowerChar(s[i])]

IsSpace(c) == c \in {" ", "\t", "\n"}

RECURSIVE LStrip(_)
LStrip(s) == IF s # <<>> /\ IsSpace(Head(s)) THEN LStrip(Tail(s)) ELSE s

RECURSIVE RStrip(_)
RStrip(s) ==
    IF s # <<>> /\ IsSpace(s[Len(s)]) THEN RStrip(SubSeq(s, 1, Len(s) - 1)) ELSE s

\* str.strip()
Strip(s) == RStrip(LStrip(s))

\* needle in hay, for two str
Contains(hay, needle) ==
    \E i \in 0..(Len(hay) - Len(needle)) : SubSeq(hay, i + 1, i + Len(needle)) = needle

\* str.split(): the maximal runs of non-whitespace characters, in order
RECURSIVE SplitFrom(_, _, _)
SplitFrom(s, i, cur) ==
    IF i > Len(s) THEN (IF cur = <<>> THEN <<>> ELSE <<cur>>)
    ELSE IF IsSpace(s[i])
         THEN (IF cur = <<>> THEN <<>> ELSE <<cur>>) \o SplitFrom(s, i + 1, <<>>)
         ELSE SplitFrom(s, i + 1, Append(cur, s[i]))

Split(s) == SplitFrom(s, 1, <<>>)

DigitChars == <<"0","1","2","3","4","5","6","7","8","9">>
IsDigit(c) == \E i \in 1..Len(DigitChars) : DigitChars[i] = c
DigitVal(c) == (CHOOSE i \in 1..Len(DigitChars) : DigitChars[i] = c) - 1

RECURSIVE NatToStr(_)
NatToStr(n) ==
    IF n < 10 THEN <<DigitChars[n + 1]>>
    ELSE NatToStr(n \div 10) \o <<DigitChars[(n % 10) + 1]>>

\* str(n) for an int
IntToStr(n) == IF n < 0 THEN <<"-">> \o NatToStr(0 - n) ELSE NatToStr(n)

RECURSIVE DigitsToNat(_)
DigitsToNat(s) ==
    IF s = <<>> THEN 0 ELSE 10 * DigitsToNat(SubSeq(s, 1, Len(s) - 1)) + DigitVal(s[Len(s)])

\* int(s) for a str: surrounding whitespace and one sign are accepted
IntBody(s) == IF s # <<>> /\ Head(s) \in {"-", "+"} THEN Tail(s) ELSE s
IntParses(s) ==
    LET b == IntBody(Strip(s)) IN b # <<>> /\ \A i \in 1..Len(b) : IsDigit(b[i])
IntOfStr(s) ==
    LET t == Strip(s) IN
    IF t # <<>> /\ Head(t) = "-" THEN 0 - DigitsToNat(IntBody(t)) ELSE DigitsToNat(IntBody(t))

-----------------------------------------------------------------------------
(* Python values                                                           *)

PyStr(s) == [t |-> "str",  s |-> s,    n |-> 0]
PyInt(n) == [t |-> "int",  s |-> <<>>, n |-> n]
PyNone == [t |-> "none", s |-> <<>>, n |-> 0]
Missing == [t |-> "missing", s |-> <<>>, n |-> 0]   \* the key is not in the mapping
\* a non-empty list object where a scalar is expected; s is its str()
ListObj(s) == [t |-> "list", s |-> s, n |-> 0]

IsStr(v) == v.t = "str"

\* dict.get(key, default) / dict.get(key)
Get(v, default) == IF v.t = "missing" THEN default ELSE v

\* bool(v)
Truthy(v) ==
    CASE v.t = "str"  -> v.s # <<>>
      [] v.t = "int"  -> v.n # 0
      [] v.t = "none" -> FALSE
      [] v.t = "list" -> TRUE
      [] v.t = "dict" -> TRUE
      [] OTHER        -> FALSE

sNoneRepr == <<"N","o","n","e">>

\* str(v)
StrOf(v) ==
    CASE v.t = "str"  -> v.s
      [] v.t = "int"  -> IntToStr(v.n)
      [] v.t = "none" -> sNoneRepr
      [] OTHER        -> v.s

\* the keys a structured list entry may carry
NoKeys == [name |-> Missing, skill |-> Missing, certification |-> Missing,
           language |-> Missing, role |-> Missing, company |-> Missing,
           degree |-> Missing]

\* list entries: a str, an int, None, or a dict with some of the keys above
EStr(s)  == [t |-> "str",  s |-> s,    n |-> 0, d |-> NoKeys]
EInt(n)  == [t |-> "int",  s |-> <<>>, n |-> n, d |-> NoKeys]
ENone    == [t |-> "none", s |-> <<>>, n |-> 0, d |-> NoKeys]
EDict(d) == [t |-> "dict", s |-> <<>>, n |-> 0, d |-> d]

IsDict(e) == e.t = "dict"

\* a sub-field that should be a list: a list of entries, or something else
List(items) == [t |-> "list", items |-> items]
NotAList(tag) == [t |-> tag, items |-> <<>>]
IsList(l) == l.t = "list"
\* dict.get(key, []) for a sub-field
GetList(l) == IF l.t = "missing" THEN List(<<>>) ELSE l

sEmpty == <<>>
sNull == <<"n","u","l","l">>
sNone == <<"n","o","n","e">>
sNA == <<"n","/","a">>
sEnglish == <<"e","n","g","l","i","s","h">>
sZero == <<"0">>

EmptyProfile ==
    [role |-> Missing, skills |-> NotAList("missing"),
     experience_details |-> NotAList("missing"), education |-> NotAList("missing"),
     certifications |-> NotAList("missing"), experience_years |-> Missing,
     location |-> Missing, languages |-> NotAList("missing")]

\* the elements of a sequence
Range(q) == {q[i] : i \in 1..Len(q)}

-----------------------------------------------------------------------------
(* generate_keywords                                                       *)

\* the program's cap on the number of keywords returned
KeywordCap == 8

\* lines 29-32: the role, when it is a non-placeholder str, stripped
RoleCandidates(p) ==
    LET role == Get(p.role, PyStr(sEmpty)) IN
    IF Truthy(role) /\ IsStr(role) /\ Lower(role.s) \notin {sNull, sNone, sEmpty}
    THEN {Strip(role.s)} ELSE {}

\* lines 35-39 and 64-68: the str entries whose stripped length exceeds 2, stripped
LongStrCandidates(field) ==
    LET l == GetList(field) IN
    IF IsList(l)
    THEN {Strip(l.items[i].s) : i \in {j \in 1..Len(l.items) :
              /\ Truthy(l.items[j]) /\ IsStr(l.items[j])
              /\ Len(Strip(l.items[j].s)) > 2}}
    ELSE {}

\* the value of `key` in each dict entry of the list, when a non-empty str, stripped
DictStrCandidates(field, key) ==
    LET l == GetList(field) IN
    IF IsList(l)
    THEN {Strip(Get(l.items[i].d[key], PyStr(sEmpty)).s) : i \in {j \in 1..Len(l.items) :
              /\ IsDict(l.items[j])
              /\ Truthy(Get(l.items[j].d[key], PyStr(sEmpty)))
              /\ IsStr(Get(l.items[j].d[key], PyStr(sEmpty)))}}
    ELSE {}

\* line 71: the final filter on the set
KeepKeyword(k) == k # <<>> /\ Lower(k) \notin {sNull, sNone, sNA, sEmpty}

\* lines 27-71: the set of keywords before it is turned into a list
KeywordSet(p) ==
    {k \in RoleCandidates(p)
           \cup LongStrCandidates(p.skills)
           \cup DictStrCandidates(p.experience_details, "role")
           \cup DictStrCandidates(p.experience_details, "company")
           \cup DictStrCandidates(p.education, "degree")
           \cup LongStrCandidates(p.certifications) : KeepKeyword(k)}

\* list.remove(x): without the first occurrence of x
RECURSIVE RemoveFirst(_, _)
RemoveFirst(q, x) ==
    IF q = <<>> THEN <<>>
    ELSE IF Head(q) = x THEN Tail(q) ELSE <<Head(q)>> \o RemoveFirst(Tail(q), x)

\* line 76: `role and role in keyword_list`, role being the value as given
RoleInList(role, keyword_list) ==
    Truthy(role) /\ IsStr(role) /\ \E i \in 1..Len(keyword_list) : keyword_list[i] = role.s

\* the role inserted at the front and not removed from where it was
PutRoleFirst_NoRemove(role, keyword_list) ==
    IF RoleInList(role, keyword_list) THEN <<role.s>> \o keyword_list ELSE keyword_list

\* lines 75-78: put the role first
PutRoleFirst(role, keyword_list) ==
    IF RoleInList(role, keyword_list)
    THEN <<role.s>> \o RemoveFirst(keyword_list, role.s)
    ELSE keyword_list

\* line 80: keyword_list[:8]
Truncate(q, k) == SubSeq(q, 1, IF Len(q) < k THEN Len(q) ELSE k)

\* lines 74-80, keyword_list being list(keywords) in the order the set iterates
generate_keywords(p, keyword_list) ==
    Truncate(PutRoleFirst(Get(p.role, PyStr(sEmpty)), keyword_list), KeywordCap)

\* list(a set): the iteration order of a set of str is not defined.  Every order
\* of a set of at most MaxPermuted elements is explored; of a larger set, every
\* rotation of one enumeration and of its reverse.
MaxPermuted == 3

RECURSIVE Perms(_)
Perms(S) ==
    IF S = {} THEN {<<>>}
    ELSE UNION {{<<x>> \o q : q \in Perms(S \ {x})} : x \in S}

RECURSIVE SetToSeq(_)
SetToSeq(S) ==
    IF S = {} THEN <<>> ELSE LET x == CHOOSE y \in S : TRUE IN <<x>> \o SetToSeq(S \ {x})

Reverse(q) == [i \in 1..Len(q) |-> q[Len(q) + 1 - i]]
Rotate(q, k) == SubSeq(q, k + 1, Len(q)) \o SubSeq(q, 1, k)

ListOrders(S) ==
    IF Cardinality(S) <= MaxPermuted THEN Perms(S)
    ELSE LET q == SetToSeq(S) IN
         {Rotate(q, k) : k \in 0..(Len(q) - 1)}
             \cup {Rotate(Reverse(q), k) : k \in 0..(Len(q) - 1)}

-----------------------------------------------------------------------------
(* merge_results                                                           *)

\* a job record; url and salary are carried by the program's records too, and
\* are read by none of the functions modelled
\* relevance_score is -1 while the record has no such key (search_jobs sets it)
Job(source, title, company, loc, description) ==
    [source |-> source, title |-> title, company |-> company,
     location |-> loc, description |-> description, relevance_score |-> -1]

\* lines 204-208: str(job.get(k, "")).lower().strip() of title, company, location
MergeField(v) == Strip(Lower(StrOf(Get(v, PyStr(sEmpty)))))
\* the key without .lower()
MergeKey_CaseSensitive(j) ==
    <<Strip(StrOf(Get(j.title, PyStr(sEmpty)))), Strip(StrOf(Get(j.company, PyStr(sEmpty)))),
      Strip(StrOf(Get(j.location, PyStr(sEmpty))))>>

MergeKey(j) == <<MergeField(j.title), MergeField(j.company), MergeField(j.location)>>

\* line 210: `uid not in seen and job.get("title")`
MergeKeeps(seen, j) == MergeKey(j) \notin seen /\ Truthy(Get(j.title, PyNone))

\* final.insert(0, job)
MergeAppend_Front(final, j) == <<j>> \o final

\* line 212: final.append(job)
MergeAppend(final, j) == Append(final, j)

\* lines 201-202: the jobs in the order the two loops visit them
RECURSIVE Concat(_)
Concat(sources) ==
    IF sources = <<>> THEN <<>> ELSE Head(sources) \o Concat(Tail(sources))

\* lines 201-212: the loop body applied to the jobs still to visit
RECURSIVE MergeLoop(_, _, _)
MergeLoop(todo, seen, final) ==
    IF todo = <<>> THEN final
    ELSE IF MergeKeeps(seen, Head(todo))
         THEN MergeLoop(Tail(todo), seen \cup {MergeKey(Head(todo))},
                        MergeAppend(final, Head(todo)))
         ELSE MergeLoop(Tail(todo), seen, final)

merge_results(sources) == MergeLoop(Concat(sources), {}, <<>>)

-----------------------------------------------------------------------------
(* score_relevance                                                         *)

sSenior == <<"s","e","n","i","o","r">>
sLead == <<"l","e","a","d">>
sMid == <<"m","i","d">>
sIntermediate == <<"i","n","t","e","r","m","e","d","i","a","t","e">>
sJunior == <<"j","u","n","i","o","r">>
sEntry == <<"e","n","t","r","y">>
sFresher == <<"f","r","e","s","h","e","r">>

\* what raises in Python: a str method on a non-str, .get on a non-dict,
\* iterating a value that is no list (None, an int)
StrMethodRaises(v) == v.t # "str"
GetRaises(e) == e.t # "dict"
IterRaises(l) == l.t \notin {"list", "str", "missing"}

\* lines 224-225
JobTitle(j) == Lower(StrOf(Get(j.title, PyStr(sEmpty))))
JobDesc(j) == Lower(StrOf(Get(j.description, PyStr(sEmpty))))

Pts(cond, n) == IF cond THEN n ELSE 0

\* line 229: `role and isinstance(role, str)`, which lets role.lower() run
RoleChecked(role) == Truthy(role) /\ IsStr(role)

\* `==` for `in`: the role must be the whole title, the whole description
ScoreRole_Whole(score, p, title, desc) ==
    LET role == Get(p.role, PyStr(sEmpty)) IN
    IF RoleChecked(role) /\ Lower(role.s) \notin {sNull, sNone, sEmpty}
    THEN score + Pts(title = Lower(role.s), 15) + Pts(desc = Lower(role.s), 7)
    ELSE score

\* lines 228-234
ScoreRole(score, p, title, desc) ==
    LET role == Get(p.role, PyStr(sEmpty)) IN
    IF RoleChecked(role) /\ Lower(role.s) \notin {sNull, sNone, sEmpty}
    THEN score + Pts(Contains(title, Lower(role.s)), 15)
               + Pts(Contains(desc, Lower(role.s)), 7)
    ELSE score

RoleRaises(p) ==
    LET role == Get(p.role, PyStr(sEmpty)) IN RoleChecked(role) /\ StrMethodRaises(role)

\* the loop calls entry.lower() without isinstance(entry, str)
EntryIsStr_Unchecked(e) == TRUE

\* isinstance(entry, str) and isinstance(entry, dict) of the loops over list entries
EntryIsStr(e) == e.t = "str"
EntryIsDict(e) == e.t = "dict"

\* lines 240-249, 259-266, 314-321: the lower-cased name a list entry is matched
\* by, and whether it is matched at all.  A str entry is matched unless its
\* lower() is in `excluded`; a dict entry by str(d.get(k1, d.get(k2, ""))).lower(),
\* unless that is empty or in `excluded`.
EntryName(e, k1, k2, excluded) ==
    IF EntryIsStr(e) /\ Lower(e.s) \notin excluded
    THEN [ok |-> TRUE, name |-> Lower(e.s)]
    ELSE IF EntryIsDict(e)
         THEN LET n == Lower(StrOf(Get(e.d[k1], Get(e.d[k2], PyStr(sEmpty))))) IN
              [ok |-> n # sEmpty /\ n \notin excluded, name |-> n]
         ELSE [ok |-> FALSE, name |-> sEmpty]

EntryRaises(e, excluded) ==
    \/ EntryIsStr(e) /\ StrMethodRaises(e)
    \/ /\ ~(EntryIsStr(e) /\ Lower(e.s) \notin excluded)
       /\ EntryIsDict(e) /\ GetRaises(e)

\* `elif` for the description test: a title match suppresses it
ScoreSkill_Elif(score, e, title, desc) ==
    LET m == EntryName(e, "name", "skill", {sNull, sNone, sEmpty}) IN
    IF m.ok
    THEN IF Contains(title, m.name) THEN score + 10
         ELSE score + Pts(Contains(desc, m.name), 4)
    ELSE score

\* `score = 10` and `score = 4` for `score += 10` and `score += 4`
ScoreSkill_Assign(score, e, title, desc) ==
    LET m == EntryName(e, "name", "skill", {sNull, sNone, sEmpty}) IN
    IF m.ok
    THEN IF Contains(desc, m.name) THEN 4
         ELSE IF Contains(title, m.name) THEN 10 ELSE score
    ELSE score

\* lines 239-253: one skill
ScoreSkill(score, e, title, desc) ==
    LET m == EntryName(e, "name", "skill", {sNull, sNone, sEmpty}) IN
    IF m.ok
    THEN score + Pts(Contains(title, m.name), 10) + Pts(Contains(desc, m.name), 4)
    ELSE score

\* lines 258-268: one certification
ScoreCertification(score, e, title, desc) ==
    LET m == EntryName(e, "name", "certification", {sNull, sNone, sEmpty}) IN
    IF m.ok
    THEN score + Pts(Contains(title, m.name) \/ Contains(desc, m.name), 8)
    ELSE score

\* lines 273-280: one education entry
ScoreEducation(score, e, title, desc) ==
    IF EntryIsDict(e)
    THEN LET degree == Get(e.d.degree, PyStr(sEmpty)) IN
         IF Truthy(degree) /\ IsStr(degree)
            /\ Lower(degree.s) # sEmpty /\ Lower(degree.s) \notin {sNull, sNone, sEmpty}
         THEN score + Pts(Contains(title, Lower(degree.s))
                             \/ Contains(desc, Lower(degree.s)), 6)
         ELSE score
    ELSE score

EducationRaises(e) ==
    /\ EntryIsDict(e)
    /\ \/ GetRaises(e)
       \/ LET degree == Get(e.d.degree, PyStr(sEmpty)) IN
          Truthy(degree) /\ IsStr(degree) /\ StrMethodRaises(degree)

\* lines 313-323: one language
ScoreLanguage(score, e, title, desc) ==
    LET m == EntryName(e, "language", "name", {sNull, sNone, sEnglish}) IN
    IF m.ok THEN score + Pts(Contains(desc, m.name), 4) ELSE score

\* isinstance(field, list) of lines 238, 257, 272, 312
FieldIsList(l) == l.t = "list"

ListRaises(field) == LET l == GetList(field) IN FieldIsList(l) /\ IterRaises(l)

\* lines 239-253: for skill in skills
RECURSIVE SkillsLoop(_, _, _, _)
SkillsLoop(score, items, title, desc) ==
    IF items = <<>> THEN score
    ELSE SkillsLoop(ScoreSkill(score, Head(items), title, desc), Tail(items), title, desc)

\* lines 237-253
ScoreSkills(score, p, title, desc) ==
    LET skills == GetList(p.skills) IN
    IF FieldIsList(skills) THEN SkillsLoop(score, skills.items, title, desc) ELSE score

\* lines 258-268: for cert in certifications
RECURSIVE CertificationsLoop(_, _, _, _)
CertificationsLoop(score, items, title, desc) ==
    IF items = <<>> THEN score
    ELSE CertificationsLoop(ScoreCertification(score, Head(items), title, desc),
                            Tail(items), title, desc)

\* lines 256-268
ScoreCertifications(score, p, title, desc) ==
    LET certifications == GetList(p.certifications) IN
    IF FieldIsList(certifications)
    THEN CertificationsLoop(score, certifications.items, title, desc) ELSE score

\* lines 273-280: for edu in education
RECURSIVE EducationLoop(_, _, _, _)
EducationLoop(score, items, title, desc) ==
    IF items = <<>> THEN score
    ELSE EducationLoop(ScoreEducation(score, Head(items), title, desc),
                       Tail(items), title, desc)

\* lines 271-280
ScoreEducations(score, p, title, desc) ==
    LET education == GetList(p.education) IN
    IF FieldIsList(education) THEN EducationLoop(score, education.items, title, desc)
    ELSE score

\* lines 313-323: for lang in languages
RECURSIVE LanguagesLoop(_, _, _, _)
LanguagesLoop(score, items, title, desc) ==
    IF items = <<>> THEN score
    ELSE LanguagesLoop(ScoreLanguage(score, Head(items), title, desc),
                       Tail(items), title, desc)

\* lines 311-323
ScoreLanguages(score, p, title, desc) ==
    LET languages == GetList(p.languages) IN
    IF FieldIsList(languages) THEN LanguagesLoop(score, languages.items, title, desc)
    ELSE score

\* line 286: int(experience_years) returns, instead of raising into `except`
IntConverts(v) == v.t = "int" \/ (v.t = "str" /\ IntParses(v.s))
IntOf(v) == IF v.t = "int" THEN v.n ELSE IntOfStr(v.s)

\* `years > 5` for `years >= 5`
ScoreExperience_Over5(score, p, title) ==
    LET experience_years == Get(p.experience_years, PyNone) IN
    IF /\ Truthy(experience_years)
       /\ Lower(StrOf(experience_years)) \notin {sNull, sNone, sZero}
       /\ IntConverts(experience_years)
    THEN LET years == IntOf(experience_years) IN
         IF years > 5 /\ (Contains(title, sSenior) \/ Contains(title, sLead))
         THEN score + 5
         ELSE IF years >= 2 /\ years < 5
                 /\ (Contains(title, sMid) \/ Contains(title, sIntermediate))
         THEN score + 5
         ELSE IF years < 2 /\ (\/ Contains(title, sJunior) \/ Contains(title, sEntry)
                               \/ Contains(title, sFresher))
         THEN score + 5
         ELSE score
    ELSE score

\* lines 283-295
ScoreExperience(score, p, title) ==
    LET experience_years == Get(p.experience_years, PyNone) IN
    IF /\ Truthy(experience_years)
       /\ Lower(StrOf(experience_years)) \notin {sNull, sNone, sZero}
       /\ IntConverts(experience_years)
    THEN LET years == IntOf(experience_years) IN
         IF years >= 5 /\ (Contains(title, sSenior) \/ Contains(title, sLead))
         THEN score + 5
         ELSE IF years >= 2 /\ years < 5
                 /\ (Contains(title, sMid) \/ Contains(title, sIntermediate))
         THEN score + 5
         ELSE IF years < 2 /\ (\/ Contains(title, sJunior) \/ Contains(title, sEntry)
                               \/ Contains(title, sFresher))
         THEN score + 5
         ELSE score
    ELSE score

\* lines 298-299: str(x.get("location", "")).lower() if x.get("location") else ""
LocationText(v) == IF Truthy(Get(v, PyNone)) THEN Lower(StrOf(v)) ELSE sEmpty

\* the loop without its `break`: +3 for every part found in the job location
RECURSIVE PartialLocation_NoBreak(_, _, _)
PartialLocation_NoBreak(score, parts, job_location) ==
    IF parts = <<>> THEN score
    ELSE PartialLocation_NoBreak(
             score + Pts(Len(Head(parts)) > 2 /\ Contains(job_location, Head(parts)), 3),
             Tail(parts), job_location)

\* lines 305-308: the first part longer than 2 found in the job location ends the loop
PartialLocation(score, parts, job_location) ==
    IF \E i \in 1..Len(parts) : Len(parts[i]) > 2 /\ Contains(job_location, parts[i])
    THEN score + 3 ELSE score

\* lines 298-308
ScoreLocation(score, p, j) ==
    LET profile_location == LocationText(p.location)
        job_location == LocationText(j.location)
    IN  IF profile_location # sEmpty /\ profile_location \notin {sNull, sNone, sEmpty}
        THEN PartialLocation(score + Pts(Contains(job_location, profile_location), 8),
                             Split(profile_location), job_location)
        ELSE score

\* lines 222-325: the score
ScoreOf(j, p) ==
    LET title == JobTitle(j)
        desc == JobDesc(j)
        s1 == ScoreRole(0, p, title, desc)
        s2 == ScoreSkills(s1, p, title, desc)
        s3 == ScoreCertifications(s2, p, title, desc)
        s4 == ScoreEducations(s3, p, title, desc)
        s5 == ScoreExperience(s4, p, title)
        s6 == ScoreLocation(s5, p, j)
    IN  ScoreLanguages(s6, p, title, desc)

SkillRaises(e) == EntryRaises(e, {sNull, sNone, sEmpty})
LanguageRaises(e) == EntryRaises(e, {sNull, sNone, sEnglish})

\* the entries the loop over a sub-field visits
Visited(field) ==
    LET l == GetList(field) IN IF FieldIsList(l) THEN Range(l.items) ELSE {}

\* an exception leaves score_relevance
ScoreRaises(p) ==
    \/ RoleRaises(p)
    \/ ListRaises(p.skills) \/ \E e \in Visited(p.skills) : SkillRaises(e)
    \/ ListRaises(p.certifications) \/ \E e \in Visited(p.certifications) : SkillRaises(e)
    \/ ListRaises(p.education) \/ \E e \in Visited(p.education) : EducationRaises(e)
    \/ ListRaises(p.languages) \/ \E e \in Visited(p.languages) : LanguageRaises(e)

\* score_relevance(job, profile): the int returned, or an exception raised
score_relevance(j, p) ==
    IF ScoreRaises(p) THEN [raised |-> TRUE, score |-> 0]
    ELSE [raised |-> FALSE, score |-> ScoreOf(j, p)]

-----------------------------------------------------------------------------
(* Inputs of generate_keywords                                             *)

sDriver == <<"D","r","i","v","e","r">>
sDriverPadded == <<" ","D","r","i","v","e","r"," ">>
sDriving == <<"D","r","i","v","i","n","g">>
sNullUpper == <<"N","U","L","L">>
sNullPadded == <<" ","n","u","l","l"," ">>
sBlank == <<" "," ">>
sAcme == <<"A","c","m","e">>
sBSc == <<"B","S","c">>
sAWS == <<"A","W","S">>
sGo == <<"G","o">>
sRepr == <<"[","'","x","'","]">>

\* the number of distinct valid skills of the largest profile
MaxSkills == 20

\* the i-th of the distinct valid skills
SkillName(i) == <<"s","k">> \o NatToStr(i)
ManySkills(n) == [i \in 1..n |-> EStr(SkillName(i))]

KwRoles ==
    {Missing, PyNone, PyInt(5), ListObj(sRepr), PyStr(sEmpty), PyStr(sBlank),
     PyStr(sDriver), PyStr(sDriverPadded), PyStr(sNull), PyStr(sNullUpper),
     PyStr(sNullPadded), PyStr(sNA)}

KwSkills ==
    {NotAList("missing"), NotAList("none"), NotAList("str"),
     List(<<EStr(sDriving), EStr(sDriving)>>),
     List(<<EStr(sDriver), EStr(sGo), EInt(7), ENone>>),
     List(<<EStr(sDriverPadded), EDict([NoKeys EXCEPT !.name = PyStr(sAWS)])>>),
     List(ManySkills(MaxSkills) \o <<EStr(SkillName(1))>>),
     List(ManySkills(KeywordCap))}

KwExperience ==
    {NotAList("missing"),
     List(<<EDict([NoKeys EXCEPT !.role = PyStr(sDriver), !.company = PyStr(sAcme)])>>),
     List(<<EDict([NoKeys EXCEPT !.role = PyNone, !.company = PyStr(sNA)]), EStr(sAcme)>>)}

KwEducation ==
    {NotAList("missing"), List(<<EDict([NoKeys EXCEPT !.degree = PyStr(sBSc)])>>)}

KwCertifications ==
    {NotAList("missing"), List(<<EStr(sAWS), EStr(sNA), EStr(sDriving)>>)}

KwProfiles ==
    {[EmptyProfile EXCEPT !.role = r, !.skills = s, !.experience_details = x,
                          !.education = e, !.certifications = c] :
        r \in KwRoles, s \in KwSkills, x \in KwExperience,
        e \in KwEducation, c \in KwCertifications}

-----------------------------------------------------------------------------
(* State machine                                                           *)

NoJob == Job("", Missing, Missing, Missing, Missing)
NoOutcome == [raised |-> FALSE, score |-> 0]
NoResponse == [status |-> 0, jobs |-> <<>>, count |-> 0]

\* the sessions, requests and load_asr_model calls the model follows
MaxSessions == 1
MaxRequests == 4
MaxCallers == 3
SessionIds == 1..MaxSessions
RequestIds == 1..MaxRequests
CallerIds == 1..MaxCallers

NoSession == [created |-> FALSE, responses |-> 0, completed |-> FALSE]
NoHandler == [kind |-> "none", sid |-> 0, pc |-> "idle", llm |-> "none", appended |-> 0,
              status |-> 0]
NoTask == [pc |-> "idle", model |-> 0]

\* main.py lines 78-82 at import: no model, the lock free, no session
ServerIdle ==
    /\ session_storage = {}
    /\ session_objects = [s \in SessionIds |-> NoSession]
    /\ handlers = [r \in RequestIds |-> NoHandler]
    /\ asr_model = 0
    /\ asr_lock = 0
    /\ asr_tasks = [c \in CallerIds |-> NoTask]
    /\ asr_loads = 0

\* one call of generate_keywords(profile)
InitKw ==
    /\ pc = "kw_call"
    /\ profile \in KwProfiles
    /\ min_score = 0
    /\ keywords = <<>>
    /\ location = sEmpty
    /\ adapter = 0
    /\ kw_i = 0
    /\ calls = <<>>
    /\ fetched = <<<<>>, <<>>, <<>>>>
    /\ all_jobs = <<>>
    /\ scored_jobs = <<>>
    /\ job = NoJob
    /\ relevance = NoOutcome
    /\ profile2 = EmptyProfile
    /\ relevance2 = NoOutcome
    /\ response = NoResponse
    /\ ServerIdle

GenerateKeywords ==
    /\ pc = "kw_call"
    /\ \E keyword_list \in ListOrders(KeywordSet(profile)) :
           keywords' = generate_keywords(profile, keyword_list)
    /\ pc' = "kw_done"
    /\ UNCHANGED <<adapter, kw_i, calls, profile, min_score, location, fetched, all_jobs, scored_jobs,
                   job, relevance, profile2, relevance2, response, serverVars>>

NextKw == GenerateKeywords

SpecKw == InitKw /\ [][NextKw]_vars

\* C1: generate_keywords returns at most 8 strings and no string twice.
C1_KeywordsBoundedDistinct ==
    pc = "kw_done" =>
        /\ Len(keywords) <= 8
        /\ \A i, j \in 1..Len(keywords) : keywords[i] = keywords[j] => i = j

\* more than 8 candidates, one of them given twice, and 8 keywords returned
C1_Witness ==
    /\ pc = "kw_done"
    /\ Len(GetList(profile.skills).items) > MaxSkills
    /\ Cardinality(KeywordSet(profile)) > 8
    /\ Len(keywords) = 8

\* C2: a str role whose trimmed value survives filtering is at index 0.
C2_RoleFirst ==
    (/\ pc = "kw_done"
     /\ IsStr(profile.role)
     /\ Lower(Strip(profile.role.s)) \notin {sEmpty, sNull, sNone, sNA})
        => (keywords # <<>> /\ keywords[1] = Strip(profile.role.s))

-----------------------------------------------------------------------------
(* One call of merge_results(adzuna, jooble, serpapi)                      *)

sDriverLower == <<"d","r","i","v","e","r">>
sCook == <<"C","o","o","k">>
sCoA == <<"A">>
sCoALower == <<"a">>
sCoAPadded == <<"A"," ">>
sCoB == <<"B">>
sPune == <<"P","u","n","e">>
sPuneLower == <<"p","u","n","e">>

JobPool ==
    {Job("Adzuna", PyStr(sDriver), PyStr(sCoA), PyStr(sPune), Missing),
     Job("Jooble", PyStr(sDriverLower), PyStr(sCoALower), PyStr(sPuneLower), Missing),
     Job("Google Jobs", PyStr(sDriverPadded), PyStr(sCoAPadded), PyStr(sPune), Missing),
     Job("Adzuna", PyStr(sCook), PyStr(sCoA), PyStr(sPune), Missing),
     Job("Adzuna", PyStr(sEmpty), PyStr(sCoB), PyStr(sPune), Missing),
     Job("Jooble", PyStr(sBlank), PyStr(sCoB), PyStr(sPune), Missing),
     Job("Jooble", PyNone, PyStr(sCoA), PyStr(sPune), Missing),
     Job("Google Jobs", PyStr(sNoneRepr), PyStr(sCoA), PyStr(sPune), Missing)}

\* the number of records the three input lists hold together
MaxMergeJobs == 3

SeqsUpTo(S, n) == UNION {[1..k -> S] : k \in 0..n}

\* the three lists: a sequence q of records cut at i and j
ThreeLists(q, i, j) ==
    <<SubSeq(q, 1, i), SubSeq(q, i + 1, j), SubSeq(q, j + 1, Len(q))>>

InitMerge ==
    /\ pc = "merge_call"
    /\ profile = EmptyProfile
    /\ min_score = 0
    /\ keywords = <<>>
    /\ location = sEmpty
    /\ adapter = 0
    /\ kw_i = 0
    /\ calls = <<>>
    /\ \E q \in SeqsUpTo(JobPool, MaxMergeJobs) :
           \E i \in 0..Len(q) : \E j \in i..Len(q) : fetched = ThreeLists(q, i, j)
    /\ all_jobs = <<>>
    /\ scored_jobs = <<>>
    /\ job = NoJob
    /\ relevance = NoOutcome
    /\ profile2 = EmptyProfile
    /\ relevance2 = NoOutcome
    /\ response = NoResponse
    /\ ServerIdle

MergeResults ==
    /\ pc = "merge_call"
    /\ all_jobs' = merge_results(fetched)
    /\ pc' = "merge_done"
    /\ UNCHANGED <<adapter, kw_i, calls, profile, min_score, keywords, location, fetched, scored_jobs,
                   job, relevance, profile2, relevance2, response, serverVars>>

NextMerge == MergeResults

SpecMerge == InitMerge /\ [][NextMerge]_vars

\* the identity key as the claims state it: trimmed, lower-cased title, company, location
IdentityField(v) == IF v.t = "missing" THEN sEmpty ELSE Lower(Strip(StrOf(v)))
IdentityKey(j) ==
    <<IdentityField(j.title), IdentityField(j.company), IdentityField(j.location)>>

\* the record has a title and it is not the empty string
HasTitle(j) == j.title.t \notin {"missing", "none"} /\ j.title # PyStr(sEmpty)

Min(S) == CHOOSE x \in S : \A y \in S : x <= y

\* C3: no two records of the output of merge_results share an identity key, and
\* the record kept for a key is the first input record with that key and a
\* non-empty title, the inputs scanned in the order passed.
C3_MergeKeepsFirstPerKey ==
    pc = "merge_done" =>
        LET cat == Concat(fetched) IN
        /\ \A i, j \in 1..Len(all_jobs) :
               IdentityKey(all_jobs[i]) = IdentityKey(all_jobs[j]) => i = j
        /\ \A i \in 1..Len(all_jobs) :
               LET same == {n \in 1..Len(cat) :
                               /\ IdentityKey(cat[n]) = IdentityKey(all_jobs[i])
                               /\ HasTitle(cat[n])}
               IN  same # {} /\ all_jobs[i] = cat[Min(same)]

\* merging [{Driver, A, Pune}] and [{driver, a, pune}] yields the first alone
C3_Witness ==
    /\ pc = "merge_done"
    /\ fetched = <<<<Job("Adzuna", PyStr(sDriver), PyStr(sCoA), PyStr(sPune), Missing)>>,
                   <<Job("Jooble", PyStr(sDriverLower), PyStr(sCoALower),
                         PyStr(sPuneLower), Missing)>>,
                   <<>>>>
    /\ all_jobs = <<Job("Adzuna", PyStr(sDriver), PyStr(sCoA), PyStr(sPune), Missing)>>

\* a is b with some of its elements left out
RECURSIVE IsSubsequence(_, _)
IsSubsequence(a, b) ==
    IF a = <<>> THEN TRUE
    ELSE IF b = <<>> THEN FALSE
    ELSE IF Head(a) = Head(b) THEN IsSubsequence(Tail(a), Tail(b))
    ELSE IsSubsequence(a, Tail(b))

FirstIndex(q, x) == Min({n \in 1..Len(q) : q[n] = x})

\* C4: the output of merge_results is a subsequence of the concatenation of its
\* inputs, its records in the order of their first occurrences there.
C4_MergeIsSubsequence ==
    pc = "merge_done" =>
        LET cat == Concat(fetched) IN
        /\ IsSubsequence(all_jobs, cat)
        /\ \A i, j \in 1..Len(all_jobs) :
               i < j => FirstIndex(cat, all_jobs[i]) < FirstIndex(cat, all_jobs[j])

\* two records kept, the second met after a dropped and a duplicate record
C4_Witness ==
    /\ pc = "merge_done"
    /\ Len(all_jobs) = 2
    /\ Len(Concat(fetched)) > 2
    /\ fetched[1] # <<>> /\ fetched[3] # <<>>

\* the title is missing, None, "" or only whitespace
TitleEmptyAfterNormalization(j) ==
    \/ j.title.t \in {"missing", "none"}
    \/ (IsStr(j.title) /\ Strip(j.title.s) = sEmpty)

\* C5: a record whose title is empty or falsy after normalization is never in
\* the output of merge_results.
C5_NoEmptyTitleInOutput ==
    pc = "merge_done" =>
        \A i \in 1..Len(all_jobs) : ~TitleEmptyAfterNormalization(all_jobs[i])

-----------------------------------------------------------------------------
(* One call of score_relevance(job, profile)                               *)

sDev == <<"D","e","v">>
sPy == <<"P","y">>
sSQL == <<"S","Q","L">>
sHindi == <<"H","i","n","d","i">>
sEnglishCap == <<"E","n","g","l","i","s","h">>
sNoneUpper == <<"N","O","N","E">>
sGoaPuneIndia == <<"G","o","a"," ","P","u","n","e"," ","I","n","d","i","a">>
sPu == <<"P","u">>
sPuneIndia == <<"P","u","n","e",","," ","I","n","d","i","a">>
sOne == <<"1">>
sAbc == <<"a","b","c">>
sTitleSenior == <<"S","e","n","i","o","r"," ","P","y"," ","D","e","v">>
sTitleJunior == <<"N","u","l","l"," ","J","u","n","i","o","r">>
sDescAll == <<"p","y"," ","s","q","l"," ","h","i","n","d","i"," ","a","w","s"," ","b","s","c">>

ScoreJobs ==
    {Job("Adzuna", PyStr(sTitleSenior), PyStr(sCoA), PyStr(sPuneIndia), PyStr(sDescAll)),
     Job("Jooble", PyStr(sTitleJunior), PyStr(sCoB), PyNone, PyNone)}

ScRoles == {Missing, PyStr(sDev), PyStr(sNullUpper), PyInt(5)}

ScSkills ==
    {NotAList("missing"), NotAList("str"),
     List(<<EStr(sPy), EDict([NoKeys EXCEPT !.name = PyStr(sSQL)])>>),
     List(<<EStr(sEmpty), EStr(sNoneRepr), EInt(7), ENone,
            EDict([NoKeys EXCEPT !.name = PyNone, !.skill = PyStr(sPy)])>>)}

ScCertifications ==
    {NotAList("missing"),
     List(<<EStr(sAWS), EDict([NoKeys EXCEPT !.certification = PyStr(sSQL)])>>),
     List(<<EStr(sNull), EDict([NoKeys EXCEPT !.name = PyStr(sEmpty)]), EInt(5)>>)}

ScEducation ==
    {NotAList("none"),
     List(<<EDict([NoKeys EXCEPT !.degree = PyStr(sBSc)])>>),
     List(<<EDict([NoKeys EXCEPT !.degree = PyStr(sNoneUpper)]),
            EDict([NoKeys EXCEPT !.degree = PyInt(5)]), EStr(sBSc)>>)}

ScExperience == {Missing, PyInt(6), PyStr(sOne), PyStr(sAbc), PyStr(sZero)}

ScLocations == {Missing, PyStr(sGoaPuneIndia), PyStr(sPune), PyStr(sPu), PyStr(sNullUpper)}

ScLanguages ==
    {NotAList("missing"),
     List(<<EStr(sHindi), EStr(sEnglishCap), EDict([NoKeys EXCEPT !.language = PyStr(sSQL)])>>),
     List(<<EStr(sEmpty), EStr(sNull), EDict([NoKeys EXCEPT !.language = PyStr(sEmpty)]),
            EDict([NoKeys EXCEPT !.name = PyStr(sNoneUpper)])>>)}

ScoreProfiles ==
    {[role |-> r, skills |-> s, experience_details |-> NotAList("missing"),
      education |-> e, certifications |-> c, experience_years |-> y,
      location |-> l, languages |-> g] :
        r \in ScRoles, s \in ScSkills, c \in ScCertifications, e \in ScEducation,
        y \in ScExperience, l \in ScLocations, g \in ScLanguages}

\* line 220: score_relevance is called with one of `jobs` and one of `profiles`
ScoreCall(jobs, profiles) ==
    /\ pc = "score_call"
    /\ profile \in profiles
    /\ min_score = 0
    /\ keywords = <<>>
    /\ location = sEmpty
    /\ adapter = 0
    /\ kw_i = 0
    /\ calls = <<>>
    /\ fetched = <<<<>>, <<>>, <<>>>>
    /\ all_jobs = <<>>
    /\ scored_jobs = <<>>
    /\ job \in jobs
    /\ relevance = NoOutcome
    /\ profile2 = EmptyProfile
    /\ relevance2 = NoOutcome
    /\ response = NoResponse
    /\ ServerIdle

ScoreRelevance ==
    /\ pc = "score_call"
    /\ relevance' = score_relevance(job, profile)
    /\ pc' = "score_done"
    /\ UNCHANGED <<adapter, kw_i, calls, profile, min_score, keywords, location, fetched, all_jobs,
                   scored_jobs, job, profile2, relevance2, response, serverVars>>

NextScore == ScoreRelevance

InitScore == ScoreCall(ScoreJobs, ScoreProfiles)

SpecScore == InitScore /\ [][NextScore]_vars

\* profiles that differ in experience_years only, and jobs whose titles name
\* each of the levels
sSevenPadded == <<" ","7"," ">>
sMinusOne == <<"-","1">>
sFive == <<"5">>
ExperienceValues ==
    {Missing, PyNone, PyInt(0), PyInt(1), PyInt(2), PyInt(4), PyInt(5), PyInt(6),
     PyStr(sZero), PyStr(sOne), PyStr(sFive), PyStr(sSevenPadded), PyStr(sMinusOne),
     PyStr(sAbc), PyStr(sEmpty), PyStr(sNullUpper), ListObj(sRepr)}

ExperienceProfiles == {[EmptyProfile EXCEPT !.experience_years = y] : y \in ExperienceValues}

ExperienceTitles ==
    {<<"S","e","n","i","o","r"," ","D","e","v">>, <<"T","e","a","m"," ","L","e","a","d">>,
     <<"M","i","d"," ","D","e","v">>, <<"I","n","t","e","r","m","e","d","i","a","t","e"," ","D","e","v">>,
     <<"J","u","n","i","o","r"," ","D","e","v">>, <<"E","n","t","r","y"," ","D","e","v">>,
     <<"F","r","e","s","h","e","r">>, sDev}

ExperienceJobs == {Job("Adzuna", PyStr(x), PyStr(sCoA), PyNone, PyNone) : x \in ExperienceTitles}

InitExperience == ScoreCall(ExperienceJobs, ExperienceProfiles)

-----------------------------------------------------------------------------
(* score_relevance for a structured record and for the plain string it      *)
(* exposes                                                                  *)

\* the values a record may expose
ShapeValues == {sPy, sSQL, sAWS, sHindi, sEnglishCap, sNullUpper, sNoneRepr, sEmpty, sAbc}

\* a profile whose skills, certifications or languages hold one plain string
\* and one record exposing a value under one of the field's two name-like keys
ShapeProfiles ==
    {[EmptyProfile EXCEPT !.skills = List(<<EStr(sDev), EDict([NoKeys EXCEPT ![k] = PyStr(x)])>>)] :
        k \in {"name", "skill"}, x \in ShapeValues}
    \cup
    {[EmptyProfile EXCEPT
         !.certifications = List(<<EStr(sDev), EDict([NoKeys EXCEPT ![k] = PyStr(x)])>>)] :
        k \in {"name", "certification"}, x \in ShapeValues}
    \cup
    {[EmptyProfile EXCEPT
         !.languages = List(<<EStr(sDev), EDict([NoKeys EXCEPT ![k] = PyStr(x)])>>)] :
        k \in {"language", "name"}, x \in ShapeValues}

InitShapes == ScoreCall(ScoreJobs, ShapeProfiles)

\* the entry as a plain string: the value the record exposes under k1 or k2
PlainEntry(e, k1, k2) ==
    LET x == IF e.d[k1].t # "missing" THEN e.d[k1] ELSE e.d[k2] IN
    IF e.t = "dict" /\ x.t = "str" THEN EStr(x.s) ELSE e

PlainList(field, k1, k2) ==
    IF field.t = "list"
    THEN List([i \in 1..Len(field.items) |-> PlainEntry(field.items[i], k1, k2)])
    ELSE field

\* the profile with every record of skills, certifications and languages
\* replaced by the plain string it exposes
PlainProfile(p) ==
    [p EXCEPT !.skills = PlainList(@, "name", "skill"),
              !.certifications = PlainList(@, "name", "certification"),
              !.languages = PlainList(@, "language", "name")]

\* the same job scored against the profile with plain strings
ScorePlain ==
    /\ pc = "score_done"
    /\ profile2' = PlainProfile(profile)
    /\ relevance2' = score_relevance(job, profile2')
    /\ pc' = "rescored"
    /\ UNCHANGED <<adapter, kw_i, calls, profile, min_score, keywords, location, fetched, all_jobs,
                   scored_jobs, job, relevance, response, serverVars>>

NextShapes == ScoreRelevance \/ ScorePlain

SpecShapes == InitShapes /\ [][NextShapes]_vars

SpecExperience == InitExperience /\ [][NextScore]_vars

\* the placeholder strings: "", "null", "none", whatever the case
IsPlaceholder(s) == Lower(s) \in {sEmpty, sNull, sNone}

\* what a structured entry exposes under its name-like fields k1, k2
Exposed(e, k1, k2) == IF e.d[k1].t # "missing" THEN e.d[k1] ELSE e.d[k2]

\* the names a list entry stands for: its text, or the str it exposes; none
\* when it is of another type
NamesOf(e, k1, k2) ==
    IF e.t = "str" THEN {e.s}
    ELSE IF e.t = "dict" /\ Exposed(e, k1, k2).t = "str" THEN {Exposed(e, k1, k2).s}
    ELSE {}

ItemsOf(field) == IF field.t = "list" THEN field.items ELSE <<>>

\* no role, skill, certification, degree, location or language of the profile
\* is a placeholder, and experience_years is not "0"
RealValues(p) ==
    /\ p.role.t = "str" => ~IsPlaceholder(p.role.s)
    /\ p.location.t = "str" => ~IsPlaceholder(p.location.s)
    /\ p.experience_years # PyStr(sZero)
    /\ \A i \in 1..Len(ItemsOf(p.skills)) :
           /\ ItemsOf(p.skills)[i].t = "dict" => NamesOf(ItemsOf(p.skills)[i], "name", "skill") # {}
           /\ \A s \in NamesOf(ItemsOf(p.skills)[i], "name", "skill") : ~IsPlaceholder(s)
    /\ \A i \in 1..Len(ItemsOf(p.certifications)) :
           \A s \in NamesOf(ItemsOf(p.certifications)[i], "name", "certification") :
               ~IsPlaceholder(s)
    /\ \A i \in 1..Len(ItemsOf(p.education)) :
           ItemsOf(p.education)[i].d.degree.t = "str"
               => ~IsPlaceholder(ItemsOf(p.education)[i].d.degree.s)
    /\ \A i \in 1..Len(ItemsOf(p.languages)) :
           \A s \in NamesOf(ItemsOf(p.languages)[i], "language", "name") : ~IsPlaceholder(s)

RECURSIVE SumOver(_, _)
SumOver(F(_), items) == IF items = <<>> THEN 0 ELSE F(Head(items)) + SumOver(F, Tail(items))

\* the rule table, each rule on its own
RuleTableSum(j, p) ==
    LET title == Lower(StrOf(Get(j.title, PyStr(sEmpty))))
        desc == Lower(StrOf(Get(j.description, PyStr(sEmpty))))
        InTitle(s) == Contains(title, Lower(s))
        InDesc(s) == Contains(desc, Lower(s))
        RoleRule == IF p.role.t = "str"
                    THEN Pts(InTitle(p.role.s), 15) + Pts(InDesc(p.role.s), 7) ELSE 0
        SkillRule(e) ==
            Pts(\E s \in NamesOf(e, "name", "skill") : InTitle(s), 10)
                + Pts(\E s \in NamesOf(e, "name", "skill") : InDesc(s), 4)
        CertRule(e) ==
            Pts(\E s \in NamesOf(e, "name", "certification") : InTitle(s) \/ InDesc(s), 8)
        DegreeRule(e) ==
            Pts(e.t = "dict" /\ e.d.degree.t = "str"
                    /\ (InTitle(e.d.degree.s) \/ InDesc(e.d.degree.s)), 6)
        LanguageRule(e) ==
            Pts(\E s \in NamesOf(e, "language", "name") :
                    Lower(s) # sEnglish /\ InDesc(s), 4)
        y == p.experience_years
        Years == IF y.t = "int" THEN y.n ELSE IntOfStr(y.s)
        ExperienceRule ==
            Pts(/\ y.t = "int" \/ (y.t = "str" /\ IntParses(y.s))
                /\ \/ Years >= 5 /\ (Contains(title, sSenior) \/ Contains(title, sLead))
                   \/ Years >= 2 /\ Years < 5
                         /\ (Contains(title, sMid) \/ Contains(title, sIntermediate))
                   \/ Years < 2 /\ (\/ Contains(title, sJunior) \/ Contains(title, sEntry)
                                    \/ Contains(title, sFresher)), 5)
        ploc == IF p.location.t = "str" THEN Lower(p.location.s) ELSE sEmpty
        jloc == IF j.location.t = "str" THEN Lower(j.location.s) ELSE sEmpty
        LocationRule ==
            IF ploc = sEmpty THEN 0
            ELSE Pts(Contains(jloc, ploc), 8)
                 + Pts(\E w \in Range(Split(ploc)) : Len(w) > 2 /\ Contains(jloc, w), 3)
    IN  RoleRule + SumOver(SkillRule, ItemsOf(p.skills))
            + SumOver(CertRule, ItemsOf(p.certifications))
            + SumOver(DegreeRule, ItemsOf(p.education))
            + SumOver(LanguageRule, ItemsOf(p.languages))
            + ExperienceRule + LocationRule

WellTyped(e, strOk) ==
    \/ strOk /\ e.t = "str"
    \/ e.t = "dict" /\ \A k \in DOMAIN e.d : e.d[k].t \in {"missing", "str"}

RECURSIVE KeepEntries(_, _)
KeepEntries(Keep(_), items) ==
    IF items = <<>> THEN <<>>
    ELSE (IF Keep(Head(items)) THEN <<Head(items)>> ELSE <<>>) \o KeepEntries(Keep, Tail(items))

WithoutMalformed(p) ==
    LET StrOrDict(e) == WellTyped(e, TRUE)
        DictOnly(e) == WellTyped(e, FALSE)
        Fix(field, Keep(_)) ==
            IF field.t = "list" THEN List(KeepEntries(Keep, field.items))
            ELSE NotAList("missing")
    IN  [p EXCEPT !.role = IF @.t = "str" THEN @ ELSE Missing,
                  !.skills = Fix(@, StrOrDict),
                  !.certifications = Fix(@, StrOrDict),
                  !.education = Fix(@, DictOnly),
                  !.languages = Fix(@, StrOrDict),
                  !.experience_years =
                      IF @.t = "int" \/ (@.t = "str" /\ IntParses(@.s)) THEN @ ELSE Missing]

\* C8: whatever the shapes of the profile's sub-fields, score_relevance raises
\* nothing and returns a non-negative integer, and a malformed sub-field adds
\* what an absent one adds: nothing.
C8_ScoreNeverRaises ==
    pc = "score_done" =>
        /\ ~relevance.raised
        /\ relevance.score \in Nat
        /\ relevance.score = ScoreOf(job, WithoutMalformed(profile))

\* a profile malformed in its role, skills, education and experience_years is
\* scored, the well-formed rest (a certification) counting
C8_Witness ==
    /\ pc = "score_done"
    /\ profile.role = PyInt(5)
    /\ profile.skills.t = "str"
    /\ profile.education.t = "none"
    /\ profile.experience_years = PyStr(sAbc)
    /\ \E i \in 1..Len(profile.certifications.items) : profile.certifications.items[i].t = "int"
    /\ ~relevance.raised
    /\ relevance.score > 0

\* the profile with every placeholder value taken out
WithoutPlaceholders(p) ==
    LET RealSkill(e) == \A s \in NamesOf(e, "name", "skill") : ~IsPlaceholder(s)
        RealCert(e) == \A s \in NamesOf(e, "name", "certification") : ~IsPlaceholder(s)
        RealLanguage(e) == \A s \in NamesOf(e, "language", "name") : ~IsPlaceholder(s)
        RealDegree(e) == e.d.degree.t = "str" => ~IsPlaceholder(e.d.degree.s)
        Fix(field, Keep(_)) ==
            IF field.t = "list" THEN List(KeepEntries(Keep, field.items)) ELSE field
    IN  [p EXCEPT !.role = IF @.t = "str" /\ IsPlaceholder(@.s) THEN Missing ELSE @,
                  !.location = IF @.t = "str" /\ IsPlaceholder(@.s) THEN Missing ELSE @,
                  !.experience_years = IF @ = PyStr(sZero) THEN Missing ELSE @,
                  !.skills = Fix(@, RealSkill),
                  !.certifications = Fix(@, RealCert),
                  !.education = Fix(@, RealDegree),
                  !.languages = Fix(@, RealLanguage)]

\* C9: a role, skill, certification, degree, location or language equal to
\* "null", "none" or "" (any case), plain or in a structured record, and an
\* experience_years of "0", add 0 points for every job.
C9_PlaceholdersAddNothing ==
    pc = "score_done" =>
        relevance.score = ScoreOf(job, WithoutPlaceholders(profile))

-----------------------------------------------------------------------------
(* score_relevance before and after one more entry in profile.skills       *)

sSqlLower == <<"s","q","l">>

AppendProfiles ==
    {[EmptyProfile EXCEPT !.role = r, !.skills = s, !.certifications = c] :
        r \in {Missing, PyStr(sDev)},
        s \in {List(<<>>),
               List(<<EStr(sPy), EDict([NoKeys EXCEPT !.name = PyStr(sSQL)])>>),
               List(<<EStr(sEmpty), EInt(7)>>)},
        c \in {NotAList("missing"), List(<<EStr(sAWS)>>)}}

AddedSkills ==
    {EStr(sPy), EStr(sSqlLower), EStr(sAbc), EStr(sEmpty), EStr(sNoneRepr), EStr(sNull),
     EDict([NoKeys EXCEPT !.name = PyStr(sDev)]),
     EDict([NoKeys EXCEPT !.skill = PyStr(sSQL)]),
     EDict([NoKeys EXCEPT !.name = PyStr(sEmpty)]),
     EInt(7), ENone}

InitAppend ==
    /\ pc = "score_call"
    /\ profile \in AppendProfiles
    /\ min_score = 0
    /\ keywords = <<>>
    /\ location = sEmpty
    /\ adapter = 0
    /\ kw_i = 0
    /\ calls = <<>>
    /\ fetched = <<<<>>, <<>>, <<>>>>
    /\ all_jobs = <<>>
    /\ scored_jobs = <<>>
    /\ job \in ScoreJobs
    /\ relevance = NoOutcome
    /\ profile2 = EmptyProfile
    /\ relevance2 = NoOutcome
    /\ response = NoResponse
    /\ ServerIdle

\* profile["skills"].append(e), and the same job scored again
AppendSkill ==
    /\ pc = "score_done"
    /\ profile.skills.t = "list"
    /\ \E e \in AddedSkills :
           /\ profile2' = [profile EXCEPT !.skills = List(Append(@.items, e))]
           /\ relevance2' = score_relevance(job, profile2')
    /\ pc' = "rescored"
    /\ UNCHANGED <<adapter, kw_i, calls, profile, min_score, keywords, location, fetched, all_jobs,
                   scored_jobs, job, relevance, response, serverVars>>

NextAppend == ScoreRelevance \/ AppendSkill

SpecAppend == InitAppend /\ [][NextAppend]_vars

AddedSkill == profile2.skills.items[Len(profile2.skills.items)]

\* C7 as stated: one more skill entry never lowers the score, and raises it by
\* at least 10 when the skill is in the title, by at least 4 when it is in the
\* description.
C7_AnySkillRaisesScore ==
    pc = "rescored" =>
        /\ relevance2.score >= relevance.score
        /\ \A s \in NamesOf(AddedSkill, "name", "skill") :
               /\ Contains(JobTitle(job), Lower(s)) => relevance2.score >= relevance.score + 10
               /\ Contains(JobDesc(job), Lower(s)) => relevance2.score >= relevance.score + 4

\* C7, amended: one more skill entry never lowers the score; a skill that is
\* not "", "null" or "none" (any case) raises it by at least 10 when it is in
\* the title and by at least 4 when it is in the description.
C7_RealSkillRaisesScore ==
    pc = "rescored" =>
        /\ ~relevance.raised /\ ~relevance2.raised
        /\ relevance2.score >= relevance.score
        /\ \A s \in NamesOf(AddedSkill, "name", "skill") :
               ~IsPlaceholder(s) =>
                   /\ Contains(JobTitle(job), Lower(s))
                          => relevance2.score >= relevance.score + 10
                   /\ Contains(JobDesc(job), Lower(s))
                          => relevance2.score >= relevance.score + 4

\* a skill found in title and description is added to a profile that scored already
C7_Witness ==
    /\ pc = "rescored"
    /\ AddedSkill = EStr(sPy)
    /\ relevance.score > 0
    /\ relevance2.score = relevance.score + 14

-----------------------------------------------------------------------------
(* search_jobs and the three adapters                                      *)

sIndia == <<"I","n","d","i","a">>
sNotAvailable == <<"N","/","A">>

\* lines 91, 130, 160: keywords[:3]
KeywordsPerAdapter == 3
\* lines 111, 143, 184: description[:300]
DescriptionCap == 300

\* the placeholders are compared without .lower()
ResolveLocation_CaseSensitive(p) ==
    LET l == Get(p.location, PyStr(sEmpty)) IN
    IF ~Truthy(l) \/ (IsStr(l) /\ l.s \in {sNull, sNone, sEmpty})
    THEN sIndia ELSE StrOf(l)

\* lines 349-353: the location passed to the adapters
ResolveLocation(p) ==
    LET l == Get(p.location, PyStr(sEmpty)) IN
    IF ~Truthy(l) \/ (IsStr(l) /\ Lower(l.s) \in {sNull, sNone, sEmpty})
    THEN sIndia ELSE StrOf(l)

\* an entry of a provider's payload: the values found at the paths the adapter
\* reads for title, company, location and description (Missing: not there)
Item(title, company, loc, description) ==
    [title |-> title, company |-> company, location |-> loc, description |-> description]

\* lines 111, 143, 184: x[:300] raises TypeError unless x can be sliced
SliceRaises(v) == v.t \notin {"str", "list"}

\* lines 105-113, 137-145, 178-186: the record built from one payload entry
Normalize(source, item, loc) ==
    Job(source, Get(item.title, PyStr(sEmpty)), Get(item.company, PyStr(sNotAvailable)),
        Get(item.location, PyStr(loc)),
        LET d == Get(item.description, PyStr(sEmpty)) IN
        IF IsStr(d) THEN PyStr(Truncate(d.s, DescriptionCap)) ELSE d)

\* lines 104-113: the loop over the payload's entries, `results` growing until
\* an entry raises
RECURSIVE AppendItems(_, _, _, _)
AppendItems(results, source, items, loc) ==
    IF items = <<>> THEN [results |-> results, raised |-> FALSE]
    ELSE IF SliceRaises(Get(Head(items).description, PyStr(sEmpty)))
         THEN [results |-> results, raised |-> TRUE]
         ELSE AppendItems(Append(results, Normalize(source, Head(items), loc)),
                          source, Tail(items), loc)

\* what one provider call can bring: a 200 answer with a payload, an answer with
\* another status, or an exception (network error, timeout, a body that is no JSON)
Ok(items) == [kind |-> "ok", items |-> items]
NonSuccess == [kind |-> "status", items |-> <<>>]
CallRaises == [kind |-> "raise", items |-> <<>>]

\* the `except` returns an empty list instead of `results`
LoopBody_Discards(results, source, answer, loc) ==
    LET out == IF answer.kind = "ok" THEN AppendItems(results, source, answer.items, loc)
               ELSE [results |-> results, raised |-> answer.kind = "raise"]
    IN  IF out.raised THEN [results |-> <<>>, raised |-> TRUE] ELSE out

\* a non-200 status is raised as an error (raise_for_status)
LoopBody_StatusRaises(results, source, answer, loc) ==
    IF answer.kind = "ok" THEN AppendItems(results, source, answer.items, loc)
    ELSE [results |-> results, raised |-> TRUE]

\* one pass of the loop of an adapter over keywords[:3], lines 91-113 (Adzuna),
\* 130-145 (Jooble), 160-186 (SerpAPI): the results after it, and whether the
\* `except` around the loop ended the adapter
LoopBody(results, source, answer, loc) ==
    IF answer.kind = "ok" THEN AppendItems(results, source, answer.items, loc)
    ELSE IF answer.kind = "status" THEN [results |-> results, raised |-> FALSE]
    ELSE [results |-> results, raised |-> TRUE]

\* `>` for `>=`
Passes_Strict(score, min) == score > min

\* line 371
Passes(score, min) == score >= min

\* lines 368-373: the jobs kept, each with its relevance_score set
RECURSIVE ScoreAndFilter(_, _, _)
ScoreAndFilter(jobs, p, min) ==
    IF jobs = <<>> THEN <<>>
    ELSE LET r == score_relevance(Head(jobs), p).score IN
         (IF Passes(r, min) THEN <<[Head(jobs) EXCEPT !.relevance_score = r]>> ELSE <<>>)
             \o ScoreAndFilter(Tail(jobs), p, min)

\* line 372 seen from all_jobs: the dict in scored_jobs is the one in all_jobs
RECURSIVE MarkScored(_, _, _)
MarkScored(jobs, p, min) ==
    IF jobs = <<>> THEN <<>>
    ELSE LET r == score_relevance(Head(jobs), p).score IN
         <<IF Passes(r, min) THEN [Head(jobs) EXCEPT !.relevance_score = r] ELSE Head(jobs)>>
             \o MarkScored(Tail(jobs), p, min)

\* `>` for `>=`: a job is put before the jobs of equal score already placed
RECURSIVE InsertByScore_Unstable(_, _)
InsertByScore_Unstable(sorted, x) ==
    IF sorted = <<>> THEN <<x>>
    ELSE IF Head(sorted).relevance_score > x.relevance_score
         THEN <<Head(sorted)>> \o InsertByScore_Unstable(Tail(sorted), x)
         ELSE <<x>> \o sorted

\* line 376: list.sort(key=relevance_score, reverse=True) is stable
RECURSIVE InsertByScore(_, _)
InsertByScore(sorted, x) ==
    IF sorted = <<>> THEN <<x>>
    ELSE IF Head(sorted).relevance_score >= x.relevance_score
         THEN <<Head(sorted)>> \o InsertByScore(Tail(sorted), x)
         ELSE <<x>> \o sorted

RECURSIVE SortByScore(_, _)
SortByScore(sorted, todo) ==
    IF todo = <<>> THEN sorted
    ELSE SortByScore(InsertByScore(sorted, Head(todo)), Tail(todo))

-----------------------------------------------------------------------------
(* One call of search_jobs(profile, min_score)                             *)

sTitleSeniorLower == <<"s","e","n","i","o","r"," ","p","y"," ","d","e","v"," ">>
sGoa == <<"G","o","a">>
sPuneCity == <<"P","u","n","e"," ","C","i","t","y">>

ItemHigh == Item(PyStr(sTitleSenior), PyStr(sCoA), PyStr(sPuneIndia), PyStr(sDescAll))
ItemHighAgain ==
    Item(PyStr(sTitleSeniorLower), PyStr(sCoALower), PyStr(Lower(sPuneIndia)), PyStr(sDescAll))
ItemNoTitle == Item(PyStr(sEmpty), Missing, Missing, Missing)
ItemLow == Item(PyStr(sCook), PyStr(sCoB), PyStr(sGoa), PyStr(sSqlLower))
ItemMid == Item(PyStr(sDev), PyStr(sCoB), PyStr(sGoa), Missing)
ItemPartial == Item(PyStr(sCook), PyStr(sCoA), PyStr(sPune), Missing)
ItemZero == Item(PyStr(sCook), PyStr(sCoA), PyStr(sGoa), Missing)
ItemNullDescription == Item(PyStr(sDev), PyStr(sCoA), PyStr(sGoa), PyNone)

\* the worked example: one job, and the profile it is scored against
sSoftwareEngineer == <<"S","o","f","t","w","a","r","e"," ","E","n","g","i","n","e","e","r">>
sPython == <<"P","y","t","h","o","n">>
sSeniorSoftwareEngineer ==
    <<"S","e","n","i","o","r"," ","S","o","f","t","w","a","r","e"," ","E","n","g","i","n","e","e","r">>
sPythonRequired == <<"P","y","t","h","o","n"," ","r","e","q","u","i","r","e","d">>
sX == <<"X">>
ItemExample ==
    Item(PyStr(sSeniorSoftwareEngineer), PyStr(sX), PyStr(sPuneIndia), PyStr(sPythonRequired))
ExampleProfile ==
    [EmptyProfile EXCEPT !.role = PyStr(sSoftwareEngineer), !.skills = List(<<EStr(sPython)>>),
                         !.location = PyStr(sPune)]

\* what each provider may answer to one call
AdzunaResponses ==
    IF profile = ExampleProfile THEN {Ok(<<ItemExample>>), NonSuccess, CallRaises}
    ELSE {Ok(<<ItemHigh, ItemNoTitle>>), NonSuccess, CallRaises}
JoobleResponses == {Ok(<<ItemHighAgain, ItemLow>>), NonSuccess, CallRaises}
SerpapiResponses ==
    {Ok(<<ItemMid, ItemPartial, ItemZero, ItemNullDescription>>), NonSuccess, CallRaises}

ProfileDev ==
    [EmptyProfile EXCEPT !.role = PyStr(sDev), !.skills = List(<<EStr(sSQL)>>),
                         !.location = PyStr(sPuneCity)]

SearchProfiles ==
    {ProfileDev,
     [EmptyProfile EXCEPT !.skills = List(<<EStr(sCook), EStr(sSQL)>>),
                          !.location = PyStr(sNullUpper)],
     [EmptyProfile EXCEPT !.role = PyNone, !.skills = List(<<EStr(sGo)>>)]}

\* 5 is the default of search_jobs, 3 what the /search_jobs endpoint passes
MinScores == {3, 5, 100}

\* line 331: search_jobs is called with one of `profiles` and one of `mins`
SearchCall(profiles, mins) ==
    /\ pc = "search_call"
    /\ profile \in profiles
    /\ min_score \in mins
    /\ keywords = <<>>
    /\ location = sEmpty
    /\ adapter = 0
    /\ kw_i = 0
    /\ calls = <<>>
    /\ fetched = <<<<>>, <<>>, <<>>>>
    /\ all_jobs = <<>>
    /\ scored_jobs = <<>>
    /\ job = NoJob
    /\ relevance = NoOutcome
    /\ profile2 = EmptyProfile
    /\ relevance2 = NoOutcome
    /\ response = NoResponse
    /\ ServerIdle

\* the value is a dict, so that profile.get(...) runs
IsProfile(p) == "role" \in DOMAIN p

\* lines 345-353
SearchKeywords ==
    /\ pc = "search_call"
    /\ IsProfile(profile)
    /\ \E keyword_list \in ListOrders(KeywordSet(profile)) :
           keywords' = generate_keywords(profile, keyword_list)
    /\ location' = ResolveLocation(profile)
    /\ adapter' = 1
    /\ kw_i' = 1
    /\ pc' = "fetch"
    /\ UNCHANGED <<profile, min_score, calls, fetched, all_jobs, scored_jobs,
                   job, relevance, profile2, relevance2, response, serverVars>>

\* the loop runs over every keyword
LoopKeywords_All == keywords

\* lines 91, 130, 160: keywords[:3]
LoopKeywords == Truncate(keywords, KeywordsPerAdapter)

\* `return results` of adapter k: the next adapter starts, or the merge
AdapterDone(k) ==
    IF k < 3 THEN adapter' = k + 1 /\ kw_i' = 1 /\ pc' = "fetch"
    ELSE adapter' = 0 /\ kw_i' = 0 /\ pc' = "merge"

\* one pass of the loop of adapter k: one provider call and what follows it
FetchKeyword(k, source, responses) ==
    /\ pc = "fetch"
    /\ adapter = k
    /\ kw_i <= Len(LoopKeywords)
    /\ \E answer \in responses :
           LET out == LoopBody(fetched[k], source, answer, location) IN
           /\ calls' = Append(calls, [adapter |-> k, keyword |-> LoopKeywords[kw_i],
                                      location |-> location, answer |-> answer.kind,
                                      raised |-> out.raised])
           /\ fetched' = [fetched EXCEPT ![k] = out.results]
           /\ IF out.raised THEN AdapterDone(k)
              ELSE adapter' = k /\ kw_i' = kw_i + 1 /\ pc' = "fetch"
    /\ UNCHANGED <<profile, min_score, keywords, location, all_jobs, scored_jobs,
                   job, relevance, profile2, relevance2, response, serverVars>>

fetch_adzuna == FetchKeyword(1, "Adzuna", AdzunaResponses)
fetch_jooble == FetchKeyword(2, "Jooble", JoobleResponses)
fetch_serpapi == FetchKeyword(3, "Google Jobs", SerpapiResponses)

\* lines 117, 149, 190 after the loop ran out of keywords
AdapterReturns ==
    /\ pc = "fetch"
    /\ kw_i > Len(LoopKeywords)
    /\ AdapterDone(adapter)
    /\ UNCHANGED <<profile, min_score, keywords, location, calls, fetched, all_jobs,
                   scored_jobs, job, relevance, profile2, relevance2, response, serverVars>>

\* merge_results(serpapi_jobs, jooble_jobs, adzuna_jobs)
MergeArguments_Reversed(f) == <<f[3], f[2], f[1]>>

\* line 364: merge_results(adzuna_jobs, jooble_jobs, serpapi_jobs)
MergeArguments(f) == <<f[1], f[2], f[3]>>

\* line 364
SearchMerge ==
    /\ pc = "merge"
    /\ all_jobs' = merge_results(MergeArguments(fetched))
    /\ pc' = "score"
    /\ UNCHANGED <<profile, min_score, keywords, location, adapter, kw_i, calls, fetched,
                   scored_jobs, job, relevance, profile2, relevance2, response, serverVars>>

\* lines 368-373; an exception of score_relevance leaves search_jobs
SearchScore ==
    /\ pc = "score"
    /\ IF \E i \in 1..Len(all_jobs) : score_relevance(all_jobs[i], profile).raised
       THEN pc' = "search_raised" /\ UNCHANGED <<all_jobs, scored_jobs>>
       ELSE /\ scored_jobs' = ScoreAndFilter(all_jobs, profile, min_score)
            /\ all_jobs' = MarkScored(all_jobs, profile, min_score)
            /\ pc' = "sort"
    /\ UNCHANGED <<profile, min_score, keywords, location, adapter, kw_i, calls, fetched,
                   job, relevance, profile2, relevance2, response, serverVars>>

\* lines 376-380
SearchSort ==
    /\ pc = "sort"
    /\ scored_jobs' = SortByScore(<<>>, scored_jobs)
    /\ pc' = "search_done"
    /\ UNCHANGED <<profile, min_score, keywords, location, adapter, kw_i, calls, fetched,
                   all_jobs, job, relevance, profile2, relevance2, response, serverVars>>

Next ==
    \/ SearchKeywords
    \/ fetch_adzuna
    \/ fetch_jooble
    \/ fetch_serpapi
    \/ AdapterReturns
    \/ SearchMerge
    \/ SearchScore
    \/ SearchSort

InitSearch == SearchCall(SearchProfiles, MinScores)

Spec == InitSearch /\ [][Next]_vars

InitExample == SearchCall({ExampleProfile}, MinScores)

\* a profile with more keywords than an adapter queries
ProfileManyKeywords ==
    [EmptyProfile EXCEPT !.role = PyStr(sDev), !.skills = List(<<EStr(sSQL), EStr(sCook)>>),
                         !.certifications = List(<<EStr(sAWS)>>)]

InitCalls == SearchCall({ProfileManyKeywords}, {5})

SpecCalls == InitCalls /\ [][Next]_vars

-----------------------------------------------------------------------------
(* The /search_jobs endpoint of backend/app/main.py                        *)

\* what payload.get("profile") can be: None (the key absent, or null), an
\* empty dict, a value that is no dict, a profile
EndpointProfiles == {PyNone, EmptyProfile, PyStr(sAbc), ProfileDev}

\* the threshold the endpoint passes, main.py line 798
EndpointMinScore == 3

InitEndpoint ==
    /\ pc = "endpoint"
    /\ profile \in EndpointProfiles
    /\ min_score = 0
    /\ keywords = <<>>
    /\ location = sEmpty
    /\ adapter = 0
    /\ kw_i = 0
    /\ calls = <<>>
    /\ fetched = <<<<>>, <<>>, <<>>>>
    /\ all_jobs = <<>>
    /\ scored_jobs = <<>>
    /\ job = NoJob
    /\ relevance = NoOutcome
    /\ profile2 = EmptyProfile
    /\ relevance2 = NoOutcome
    /\ response = NoResponse
    /\ ServerIdle

\* the check is dropped
ProfileRejected_Never(p) == FALSE

\* main.py line 793: `not profile`
ProfileRejected(p) == IF IsProfile(p) THEN p = EmptyProfile ELSE ~Truthy(p)

HttpError(code) == [status |-> code, jobs |-> <<>>, count |-> 0]

\* main.py lines 791-798: the request is rejected, or search_jobs is called
search_jobs_endpoint ==
    /\ pc = "endpoint"
    /\ IF ProfileRejected(profile)
       THEN response' = HttpError(400) /\ pc' = "responded" /\ UNCHANGED min_score
       ELSE min_score' = EndpointMinScore /\ pc' = "search_call" /\ UNCHANGED response
    /\ UNCHANGED <<profile, keywords, location, adapter, kw_i, calls, fetched, all_jobs,
                   scored_jobs, job, relevance, profile2, relevance2, serverVars>>

\* job_search.py line 30 (in the call of line 345): profile.get raises
\* AttributeError when the profile is no dict
SearchKeywordsRaises ==
    /\ pc = "search_call"
    /\ ~IsProfile(profile)
    /\ pc' = "search_raised"
    /\ UNCHANGED <<profile, min_score, keywords, location, adapter, kw_i, calls, fetched,
                   all_jobs, scored_jobs, job, relevance, profile2, relevance2, response, serverVars>>

\* main.py lines 800-804
EndpointReturns ==
    /\ pc = "search_done"
    /\ response' = [status |-> 200, jobs |-> scored_jobs, count |-> Len(scored_jobs)]
    /\ pc' = "responded"
    /\ UNCHANGED <<profile, min_score, keywords, location, adapter, kw_i, calls, fetched,
                   all_jobs, scored_jobs, job, relevance, profile2, relevance2, serverVars>>

\* main.py lines 805-807
EndpointFails ==
    /\ pc = "search_raised"
    /\ response' = HttpError(500)
    /\ pc' = "responded"
    /\ UNCHANGED <<profile, min_score, keywords, location, adapter, kw_i, calls, fetched,
                   all_jobs, scored_jobs, job, relevance, profile2, relevance2, serverVars>>

NextEndpoint ==
    \/ search_jobs_endpoint
    \/ SearchKeywords
    \/ SearchKeywordsRaises
    \/ fetch_adzuna
    \/ fetch_jooble
    \/ fetch_serpapi
    \/ AdapterReturns
    \/ SearchMerge
    \/ SearchScore
    \/ SearchSort
    \/ EndpointReturns
    \/ EndpointFails

SpecEndpoint == InitEndpoint /\ [][NextEndpoint]_vars

SpecExample == InitExample /\ [][Next]_vars

\* ---------------------------------------------------------------------
\* main.py: the session endpoints.  The handlers are coroutines of one
\* event loop: a handler runs without interruption from one await to the
\* next, and the only await of /ask_llm and /build_profile after their
\* validation is the LLM call.
\* ---------------------------------------------------------------------

jobVars == <<pc, profile, min_score, keywords, location, adapter, kw_i, calls, fetched,
             all_jobs, scored_jobs, job, relevance, profile2, relevance2, response>>

\* no search is in progress
JobsIdle ==
    /\ pc = "server"
    /\ profile = EmptyProfile
    /\ min_score = 0
    /\ keywords = <<>>
    /\ location = sEmpty
    /\ adapter = 0
    /\ kw_i = 0
    /\ calls = <<>>
    /\ fetched = <<<<>>, <<>>, <<>>>>
    /\ all_jobs = <<>>
    /\ scored_jobs = <<>>
    /\ job = NoJob
    /\ relevance = NoOutcome
    /\ profile2 = EmptyProfile
    /\ relevance2 = NoOutcome
    /\ response = NoResponse

InitSessions ==
    /\ JobsIdle
    /\ ServerIdle

\* the session_id of a payload: 0 is a missing session_id, the others are
\* ids start_session has given out or unknown ids
PayloadSessionIds == 0..MaxSessions

\* what the awaited call_gemini gives: a JSON object, JSON that is not an
\* object (json.loads of a list, a string, a number), or HTTPException(500)
LlmResults == {"ok", "other", "failed"}

\* uuid4: an id that was never given out
FreshSessionId(sid) ==
    /\ ~session_objects[sid].created
    /\ \A s \in SessionIds : s < sid => session_objects[s].created

\* a request arrives: the requests take the handler slots in order
Arrives(r) ==
    /\ handlers[r].pc = "idle"
    /\ r > 1 => handlers[r - 1].pc # "idle"

Finished(h, code) == [h EXCEPT !.pc = "done", !.status = code]

\* main.py lines 446, 657: `not session_id or session_id not in session_storage`
SessionRejected(sid) == sid = 0 \/ sid \notin session_storage

\* the entry is kept
DeleteSession_Keeps(storage, sid) == storage

\* main.py line 764: del session_storage[session_id]
DeleteSession(storage, sid) == storage \ {sid}

\* main.py lines 419-431
start_session ==
    \E sid \in SessionIds :
        /\ FreshSessionId(sid)
        /\ session_storage' = session_storage \cup {sid}
        /\ session_objects' = [session_objects EXCEPT
                                  ![sid] = [created |-> TRUE, responses |-> 0,
                                            completed |-> FALSE]]
        /\ UNCHANGED <<handlers, asr_model, asr_lock, asr_tasks, asr_loads, jobVars>>

\* main.py lines 433-450: ask_llm up to its await
AskValidate(r) ==
    \E sid \in PayloadSessionIds, transcript \in BOOLEAN :
        /\ Arrives(r)
        /\ LET h == [handlers[r] EXCEPT !.kind = "ask", !.sid = sid] IN
           handlers' = [handlers EXCEPT ![r] =
               IF SessionRejected(sid) THEN Finished(h, 400)
               ELSE IF ~transcript THEN Finished(h, 400)
               ELSE [h EXCEPT !.pc = "ask_await"]]
        /\ UNCHANGED <<session_storage, session_objects, asr_model, asr_lock, asr_tasks,
                       asr_loads, jobVars>>

\* main.py lines 485-505: ask_llm from the return of call_gemini.  An
\* HTTPException(500) of call_gemini ends the request; result.get raises
\* AttributeError on JSON that is not an object; session_storage[session_id]
\* raises KeyError when the session was deleted during the await; both are
\* unhandled and the server answers 500.
AskResumes(r) ==
    \E llm \in LlmResults :
        /\ handlers[r].pc = "ask_await"
        /\ LET h == [handlers[r] EXCEPT !.llm = llm]
               sid == handlers[r].sid IN
           IF llm # "ok" \/ sid \notin session_storage
           THEN /\ handlers' = [handlers EXCEPT ![r] = Finished(h, 500)]
                /\ UNCHANGED session_objects
           ELSE /\ handlers' = [handlers EXCEPT ![r] = Finished([h EXCEPT !.appended = 1], 200)]
                /\ session_objects' = [session_objects EXCEPT
                                          ![sid].responses = session_objects[sid].responses + 1]
        /\ UNCHANGED <<session_storage, asr_model, asr_lock, asr_tasks, asr_loads, jobVars>>

\* main.py lines 649-664: build_profile up to its await
BuildValidate(r) ==
    \E sid \in PayloadSessionIds :
        /\ Arrives(r)
        /\ LET h == [handlers[r] EXCEPT !.kind = "build", !.sid = sid] IN
           handlers' = [handlers EXCEPT ![r] =
               IF SessionRejected(sid) THEN Finished(h, 400)
               ELSE IF session_objects[sid].responses = 0 THEN Finished(h, 400)
               ELSE [h EXCEPT !.pc = "build_await"]]
        /\ UNCHANGED <<session_storage, session_objects, asr_model, asr_lock, asr_tasks,
                       asr_loads, jobVars>>

\* main.py lines 730-774: build_profile from the return of call_gemini.
\* validate_and_clean_data raises AttributeError on JSON that is not an
\* object (500, before line 742).  Line 742 sets metadata.completed on the
\* session dict the handler holds, before the try.  In the try, saving the
\* JSON or rendering the PDF may raise, and del raises KeyError when the
\* session is no longer in session_storage: each is answered with 500.
BuildResumes(r) ==
    \E llm \in LlmResults, saved \in BOOLEAN :
        /\ handlers[r].pc = "build_await"
        /\ LET h == [handlers[r] EXCEPT !.llm = llm]
               sid == handlers[r].sid IN
           IF llm # "ok"
           THEN /\ handlers' = [handlers EXCEPT ![r] = Finished(h, 500)]
                /\ UNCHANGED <<session_storage, session_objects>>
           ELSE /\ session_objects' = [session_objects EXCEPT ![sid].completed = TRUE]
                /\ IF saved /\ sid \in session_storage
                   THEN /\ session_storage' = DeleteSession(session_storage, sid)
                        /\ handlers' = [handlers EXCEPT ![r] = Finished(h, 200)]
                   ELSE /\ UNCHANGED session_storage
                        /\ handlers' = [handlers EXCEPT ![r] = Finished(h, 500)]
        /\ UNCHANGED <<asr_model, asr_lock, asr_tasks, asr_loads, jobVars>>

NextSessions ==
    \/ start_session
    \/ \E r \in RequestIds : AskValidate(r)
    \/ \E r \in RequestIds : AskResumes(r)
    \/ \E r \in RequestIds : BuildValidate(r)
    \/ \E r \in RequestIds : BuildResumes(r)

SpecSessions == InitSessions /\ [][NextSessions]_vars

\* ---------------------------------------------------------------------
\* main.py: load_asr_model, called by run_asr for every /transcribe.  The
\* calls are coroutines of one event loop; the steps below are the entry
\* and the exit of `async with asr_lock`, its body, which has no await, and
\* the return, so they interleave at least as freely as the event loop
\* lets the calls interleave.
\* ---------------------------------------------------------------------

InitAsr ==
    /\ JobsIdle
    /\ ServerIdle

AsrStep(c, from, to) ==
    /\ asr_tasks[c].pc = from
    /\ asr_tasks' = [asr_tasks EXCEPT ![c].pc = to]

\* the model is constructed whether or not one is loaded
NeedsLoad_Always(m) == TRUE

\* main.py line 120: `if _asr_model is None`
NeedsLoad(m) == m = 0

\* main.py line 135: run_asr calls load_asr_model
AsrCall(c) ==
    /\ AsrStep(c, "idle", "acquire")
    /\ UNCHANGED <<asr_model, asr_lock, asr_loads, session_storage, session_objects,
                   handlers, jobVars>>

\* main.py line 119: `async with asr_lock` is entered once the lock is free
AsrAcquire(c) ==
    /\ asr_lock = 0
    /\ AsrStep(c, "acquire", "body")
    /\ asr_lock' = c
    /\ UNCHANGED <<asr_model, asr_loads, session_storage, session_objects, handlers,
                   jobVars>>

\* main.py lines 120-123: the check and the load.  from_pretrained either
\* gives a new model object or raises, and then _asr_model stays None.
AsrBody(c) ==
    /\ asr_tasks[c].pc = "body"
    /\ IF NeedsLoad(asr_model)
       THEN \E loaded \in BOOLEAN :
                IF loaded
                THEN /\ asr_model' = asr_loads + 1
                     /\ asr_loads' = asr_loads + 1
                     /\ asr_tasks' = [asr_tasks EXCEPT ![c].pc = "exit"]
                ELSE /\ UNCHANGED <<asr_model, asr_loads>>
                     /\ asr_tasks' = [asr_tasks EXCEPT ![c].pc = "unwinding"]
       ELSE /\ UNCHANGED <<asr_model, asr_loads>>
            /\ asr_tasks' = [asr_tasks EXCEPT ![c].pc = "exit"]
    /\ UNCHANGED <<asr_lock, session_storage, session_objects, handlers, jobVars>>

\* main.py line 119: leaving `async with` releases the lock, on the normal
\* path and when the body raised
AsrRelease(c) ==
    /\ \/ AsrStep(c, "exit", "return")
       \/ AsrStep(c, "unwinding", "raised")
    /\ asr_lock' = 0
    /\ UNCHANGED <<asr_model, asr_loads, session_storage, session_objects, handlers,
                   jobVars>>

\* main.py line 124: return _asr_model
AsrReturn(c) ==
    /\ asr_tasks[c].pc = "return"
    /\ asr_tasks' = [asr_tasks EXCEPT ![c] = [pc |-> "done", model |-> asr_model]]
    /\ UNCHANGED <<asr_model, asr_lock, asr_loads, session_storage, session_objects,
                   handlers, jobVars>>

NextAsr ==
    \/ \E c \in CallerIds : AsrCall(c)
    \/ \E c \in CallerIds : AsrAcquire(c)
    \/ \E c \in CallerIds : AsrBody(c)
    \/ \E c \in CallerIds : AsrRelease(c)
    \/ \E c \in CallerIds : AsrReturn(c)

SpecAsr == InitAsr /\ [][NextAsr]_vars

\* the record as the adapters built it, before search_jobs set its relevance_score
Unscored(j) == [j EXCEPT !.relevance_score = -1]

\* C10: every job search_jobs returns carries relevance_score =
\* score_relevance(job, profile) >= min_score, every merged job scoring at
\* least min_score is returned, and when none does the result is the empty
\* list; no error is raised.
C10_ThresholdFilter ==
    /\ pc # "search_raised"
    /\ pc = "search_done" =>
           LET merged == merge_results(fetched) IN
           /\ \A i \in 1..Len(scored_jobs) :
                  /\ scored_jobs[i].relevance_score = ScoreOf(Unscored(scored_jobs[i]), profile)
                  /\ scored_jobs[i].relevance_score >= min_score
                  /\ Unscored(scored_jobs[i]) \in Range(merged)
           /\ \A n \in 1..Len(merged) :
                  ScoreOf(merged[n], profile) >= min_score
                      => \E i \in 1..Len(scored_jobs) : Unscored(scored_jobs[i]) = merged[n]
           /\ (\A n \in 1..Len(merged) : ScoreOf(merged[n], profile) < min_score)
                  => scored_jobs = <<>>

\* of several merged jobs one scoring min_score exactly is returned, and one
\* scoring less is not
C10_Witness ==
    /\ pc = "search_done"
    /\ Len(scored_jobs) >= 2
    /\ Len(scored_jobs) < Len(all_jobs)
    /\ \E i \in 1..Len(scored_jobs) : scored_jobs[i].relevance_score = min_score
    /\ \E n \in 1..Len(all_jobs) : ScoreOf(Unscored(all_jobs[n]), profile) < min_score

-----------------------------------------------------------------------------
\* C11: the list search_jobs returns is in non-increasing order of
\* relevance_score, and two returned jobs of equal relevance_score are in the
\* order they have in the output of the merge step.
C11_SortedStable ==
    pc = "search_done" =>
        LET merged == merge_results(fetched) IN
        \A i, j \in 1..Len(scored_jobs) :
            i < j =>
                /\ scored_jobs[i].relevance_score >= scored_jobs[j].relevance_score
                /\ scored_jobs[i].relevance_score = scored_jobs[j].relevance_score
                       => FirstIndex(merged, Unscored(scored_jobs[i]))
                              < FirstIndex(merged, Unscored(scored_jobs[j]))

\* the sort moved a job in front of one merged before it, and two of the jobs
\* returned have the same score
C11_Witness ==
    /\ pc = "search_done"
    /\ \E i, j \in 1..Len(scored_jobs) :
           i < j /\ scored_jobs[i].relevance_score = scored_jobs[j].relevance_score
    /\ LET merged == merge_results(fetched) IN
       \E i, j \in 1..Len(scored_jobs) :
           /\ i < j
           /\ FirstIndex(merged, Unscored(scored_jobs[i]))
                  > FirstIndex(merged, Unscored(scored_jobs[j]))

-----------------------------------------------------------------------------
\* the one job fetched in the worked example, as fetch_adzuna builds it
ExampleJob == Normalize("Adzuna", ItemExample, sPune)

ExampleCase ==
    /\ pc = "search_done"
    /\ profile = ExampleProfile
    /\ min_score = 5
    /\ Concat(fetched) = <<ExampleJob>>

\* C12 as stated: for profile {role "Software Engineer", skills ["Python"],
\* location "Pune"} and the single fetched job {title "Senior Software
\* Engineer", description "Python required", company "X", location "Pune,
\* India"} the score is at least 37, the job is included at min_score = 5 and
\* is the only element of the output.
C12_ExampleScoresAtLeast37 ==
    ExampleCase =>
        /\ Len(scored_jobs) = 1
        /\ Unscored(scored_jobs[1]) = ExampleJob
        /\ scored_jobs[1].relevance_score >= 37

\* C12, amended: in that example the score is 30 = 15 (role in title) + 4 (skill
\* in description) + 8 (location substring) + 3 (location token): the skill is
\* not in the title; the job is included at min_score = 5 and is the only
\* element of the output.
C12_ExampleScores30 ==
    /\ ExampleCase =>
           /\ Len(scored_jobs) = 1
           /\ Unscored(scored_jobs[1]) = ExampleJob
           /\ scored_jobs[1].relevance_score = 30
    /\ ExampleCase =>
           LET title == JobTitle(ExampleJob)
               desc == JobDesc(ExampleJob)
           IN  /\ ScoreRole(0, profile, title, desc) = 15
               /\ ScoreSkills(0, profile, title, desc) = 4
               /\ ScoreLocation(0, profile, ExampleJob) = 11

C12_Witness == ExampleCase /\ Len(scored_jobs) = 1

-----------------------------------------------------------------------------
SourceName(k) == <<"Adzuna", "Jooble", "Google Jobs">>[k]

IsPrefix(a, b) == Len(a) <= Len(b) /\ SubSeq(b, 1, Len(a)) = a

\* the adapters have all returned
Fetched == pc \in {"merge", "score", "sort", "search_done"}

\* the step is a provider call of adapter k whose pass of the loop raised
RaisingCall(k) ==
    /\ Len(calls') = Len(calls) + 1
    /\ calls'[Len(calls')].adapter = k
    /\ calls'[Len(calls')].raised

\* an exception in an adapter stays there: search_jobs never raises, and once
\* the adapters have returned each of them was invoked
C13_NothingEscapes ==
    /\ pc # "search_raised"
    /\ Fetched /\ keywords # <<>> =>
           \A k \in 1..3 : \E n \in 1..Len(calls) : calls[n].adapter = k

\* the failing adapter returns what it had collected, and the next adapter (or
\* the merge, after the last one) follows
C13_FailingAdapterReturns ==
    \A k \in 1..3 :
        RaisingCall(k) =>
            /\ IsPrefix(fetched[k], fetched'[k])
            /\ \A o \in 1..3 : o # k => fetched'[o] = fetched[o]
            /\ IF k < 3 THEN pc' = "fetch" /\ adapter' = k + 1 /\ kw_i' = 1
               ELSE pc' = "merge"

\* every titled record an adapter returned is in the merged list, itself or the
\* earlier record with its identity key, and a merged record whose score
\* reaches min_score is in the output
C13_ReturnedRecordsSurvive ==
    pc = "search_done" =>
        \A k \in 1..3 : \A n \in 1..Len(fetched[k]) :
            HasTitle(fetched[k][n]) =>
                \E m \in 1..Len(all_jobs) :
                    /\ IdentityKey(all_jobs[m]) = IdentityKey(fetched[k][n])
                    /\ ScoreOf(Unscored(all_jobs[m]), profile) >= min_score
                           => \E i \in 1..Len(scored_jobs) : scored_jobs[i] = all_jobs[m]

\* C13: no exception raised inside an adapter escapes it or aborts
\* search_jobs: the failing adapter returns the records it had collected, the
\* remaining adapters are still invoked, and every titled record they return
\* is in the merged list and, its score reaching min_score, in the output.
C13_AdapterFailureContained ==
    /\ [](C13_NothingEscapes /\ C13_ReturnedRecordsSurvive)
    /\ [][C13_FailingAdapterReturns]_vars

\* an adapter failed after it had collected a record, which is returned
\* together with a record of an adapter invoked after the failure
C13_Witness ==
    /\ pc = "search_done"
    /\ \E n \in 1..Len(calls) :
           /\ calls[n].raised
           /\ \E i, j \in 1..Len(scored_jobs) :
                  /\ scored_jobs[i].source = SourceName(calls[n].adapter)
                  /\ \E k \in (calls[n].adapter + 1)..3 :
                         scored_jobs[j].source = SourceName(k)

-----------------------------------------------------------------------------
\* C14: within one adapter invocation a provider call that fails for one
\* keyword (network error, non-2xx status, malformed payload) is isolated to
\* that keyword: every later keyword among the first three is still queried.
C14_KeywordFailureIsolated ==
    Fetched =>
        \A k \in 1..3 : \A i \in 1..Len(LoopKeywords) :
            \E n \in 1..Len(calls) :
                calls[n].adapter = k /\ calls[n].keyword = LoopKeywords[i]

-----------------------------------------------------------------------------
\* C15: the /search_jobs endpoint rejects a request whose profile is absent or
\* null with an error response and without a provider call; on success it
\* returns the jobs of search_jobs with count = the number of jobs; an
\* exception escaping search_jobs becomes a failure response.
C15_EndpointResponses ==
    /\ [](/\ profile = PyNone => calls = <<>> /\ pc \in {"endpoint", "responded"}
          /\ pc = "responded" /\ profile = PyNone => response.status = 400
          /\ pc = "responded" => response.status \in {200, 400, 500}
          /\ response.status = 200 =>
                 /\ response.jobs = scored_jobs
                 /\ response.count = Len(response.jobs)
                 /\ ~ProfileRejected(profile))
    /\ [][/\ pc = "search_done" => response'.status = 200
          /\ pc = "search_raised" => response'.status = 500 /\ pc' = "responded"]_vars

\* a success response with several jobs
C15_Witness ==
    /\ pc = "responded"
    /\ response.status = 200
    /\ response.count >= 2

-----------------------------------------------------------------------------
\* the step is a provider call of adapter k answered with a non-success status
StatusCall(k) ==
    /\ Len(calls') = Len(calls) + 1
    /\ calls'[Len(calls')].adapter = k
    /\ calls'[Len(calls')].answer = "status"

\* C16: when a provider answers a keyword's query with a non-success status,
\* the adapter emits no record for that keyword, keeps the records collected
\* from earlier keywords, and goes on to query the next keyword (up to the
\* third).
C16_NonSuccessSkipsKeyword ==
    /\ [][\A k \in 1..3 :
              StatusCall(k) =>
                  /\ fetched' = fetched
                  /\ pc' = "fetch" /\ adapter' = k /\ kw_i' = kw_i + 1]_vars
    /\ [](Fetched =>
              \A n \in 1..Len(calls) : \A i \in 1..Len(keywords) :
                  /\ calls[n].answer = "status"
                  /\ calls[n].keyword = keywords[i]
                  /\ i < 3 /\ i < Len(keywords)
                  => /\ n < Len(calls)
                     /\ calls[n + 1].adapter = calls[n].adapter
                     /\ calls[n + 1].keyword = keywords[i + 1])

\* an adapter's first keyword brought records, its second a non-success status,
\* its third records again
C16_Witness ==
    /\ Fetched
    /\ \E n \in 2..(Len(calls) - 1) :
           /\ calls[n].answer = "status"
           /\ calls[n - 1].adapter = calls[n].adapter /\ calls[n + 1].adapter = calls[n].adapter
           /\ calls[n - 1].answer = "ok" /\ calls[n + 1].answer = "ok"
           /\ calls[n + 1].keyword = keywords[3]
           /\ Len(fetched[calls[n].adapter]) >= 2

-----------------------------------------------------------------------------
KeywordIndex(kw) == CHOOSE i \in 1..Len(keywords) : keywords[i] = kw

\* C17: each adapter issues at most one provider call per keyword, only for
\* the first 3 keywords and in keyword order, and never re-attempts a call; one
\* search_jobs call makes at most 9 provider calls, and a keyword at index 3 or
\* later (counting from 0) is never queried.
C17_CallsBounded ==
    /\ Len(calls) <= 9
    /\ \A n \in 1..Len(calls) :
           /\ \E i \in 1..Len(keywords) : keywords[i] = calls[n].keyword
           /\ KeywordIndex(calls[n].keyword) <= 3
    /\ \A n, m \in 1..Len(calls) :
           n < m /\ calls[n].adapter = calls[m].adapter
               => KeywordIndex(calls[n].keyword) < KeywordIndex(calls[m].keyword)

\* more than 3 keywords were generated and 9 calls made
C17_Witness ==
    /\ pc = "search_done"
    /\ Len(keywords) > 3
    /\ Len(calls) = 9

-----------------------------------------------------------------------------
SourceIndex(s) == CHOOSE k \in 1..3 : SourceName(k) = s

Merged == pc \in {"score", "sort", "search_done"}

\* C18: search_jobs invokes the adapters one after another in the order
\* Adzuna, Jooble, SerpAPI, each finishing before the next starts, and merges
\* their outputs in that order: the merged list follows the order of the
\* adapter outputs, and of the records of several sources with one identity
\* key the one of the earliest source is kept.
C18_FixedAdapterOrder ==
    /\ [](/\ \A n, m \in 1..Len(calls) : n < m => calls[n].adapter <= calls[m].adapter
          /\ pc = "fetch" => \A k \in 1..3 : k > adapter => fetched[k] = <<>>
          /\ Merged =>
                 /\ IsSubsequence([n \in 1..Len(all_jobs) |-> Unscored(all_jobs[n])],
                                   fetched[1] \o fetched[2] \o fetched[3])
                 /\ \A m \in 1..Len(all_jobs) : \A k \in 1..3 :
                        k < SourceIndex(all_jobs[m].source) =>
                            \A n \in 1..Len(fetched[k]) :
                                HasTitle(fetched[k][n]) =>
                                    IdentityKey(fetched[k][n]) # IdentityKey(all_jobs[m]))
    /\ [][\A k \in 1..3 : fetched'[k] # fetched[k] => pc = "fetch" /\ adapter = k]_vars

\* Adzuna and Jooble returned records with one identity key, and the merged list
\* has Adzuna's
C18_Witness ==
    /\ pc = "search_done"
    /\ \E m \in 1..Len(all_jobs) : \E n \in 1..Len(fetched[2]) :
           /\ all_jobs[m].source = "Adzuna"
           /\ IdentityKey(fetched[2][n]) = IdentityKey(all_jobs[m])
           /\ fetched[2][n] # Unscored(all_jobs[m])

-----------------------------------------------------------------------------
\* the location the adapters are to be given for profile p
EffectiveLocation(p) ==
    IF p.location.t = "str" /\ Lower(p.location.s) \notin {sEmpty, sNull, sNone}
    THEN p.location.s ELSE sIndia

\* C19: the location search_jobs passes to every adapter is profile.location
\* when it is present and not (case-insensitively) one of "", "null", "none",
\* and "India" otherwise; the three adapters receive the same value.
C19_LocationPassed ==
    /\ pc # "search_call" => location = EffectiveLocation(profile)
    /\ \A n \in 1..Len(calls) : calls[n].location = EffectiveLocation(profile)

\* the profile's location is "NULL" and each adapter was called with "India"
C19_Witness ==
    /\ Fetched
    /\ profile.location = PyStr(sNullUpper)
    /\ \A k \in 1..3 : \E n \in 1..Len(calls) :
           calls[n].adapter = k /\ calls[n].location = sIndia

-----------------------------------------------------------------------------
\* the lower-cased location of the job, "" when it has none
JobLocationLower(j) ==
    IF j.location.t \in {"missing", "none"} THEN sEmpty ELSE Lower(StrOf(j.location))

\* what the location rules add for a profile location that is a real value
LocationRules(loc, j) ==
    LET tokens == Split(Lower(loc)) IN
    Pts(Contains(JobLocationLower(j), Lower(loc)), 8)
        + Pts(\E i \in 1..Len(tokens) :
                  Len(tokens[i]) > 2 /\ Contains(JobLocationLower(j), tokens[i]), 3)

\* the part of the score that is due to the profile's location
LocationContribution ==
    relevance.score - ScoreOf(job, [profile EXCEPT !.location = Missing])

\* C20: the location contribution of score_relevance is +8 when the lower-cased
\* profile location is a substring of the job location, plus +3 once when at
\* least one whitespace-separated token of it longer than 2 characters is a
\* substring of the job location: always one of 0, 3, 8, 11.
C20_LocationContribution ==
    pc = "score_done" /\ ~relevance.raised =>
        /\ LocationContribution \in {0, 3, 8, 11}
        /\ LocationContribution =
               IF profile.location.t = "str" /\ ~IsPlaceholder(profile.location.s)
               THEN LocationRules(profile.location.s, job)
               ELSE 0

\* two tokens of the profile location are in the job location, the whole is not
C20_Witness ==
    /\ pc = "score_done"
    /\ ~relevance.raised
    /\ profile.location = PyStr(sGoaPuneIndia)
    /\ job.location = PyStr(sPuneIndia)
    /\ LocationContribution = 3

-----------------------------------------------------------------------------
\* the part of the score that is due to experience_years
ExperienceContribution ==
    relevance.score - ScoreOf(job, [profile EXCEPT !.experience_years = Missing])

\* the value converts to an integer: it is one, or the text of one
ConvertsToInteger(v) == v.t = "int" \/ (v.t = "str" /\ IntParses(v.s))

TitleHas(words) == \E w \in words : Contains(Lower(StrOf(job.title)), w)

\* the experience-level rule for y years
LevelRule(y) ==
    Pts(\/ y >= 5 /\ TitleHas({sSenior, sLead})
        \/ y >= 2 /\ y < 5 /\ TitleHas({sMid, sIntermediate})
        \/ y < 2 /\ TitleHas({sJunior, sEntry, sFresher}), 5)

\* C21 as stated: the experience-level rule contributes +5 when
\* experience_years converts to an integer y and the title names the level of
\* y, and 0 when experience_years is absent or does not convert; it never
\* raises.
C21_ExperienceRule ==
    pc = "score_done" =>
        /\ ~relevance.raised
        /\ ExperienceContribution \in {0, 5}
        /\ ExperienceContribution =
               IF ConvertsToInteger(profile.experience_years)
               THEN LevelRule(IntOf(profile.experience_years))
               ELSE 0

\* C21, amended: as above for an experience_years that is not 0 or "0"; the
\* values 0 and "0" are treated as absent and contribute 0.
C21_ExperienceRuleExceptZero ==
    pc = "score_done" =>
        /\ ~relevance.raised
        /\ ExperienceContribution \in {0, 5}
        /\ ExperienceContribution =
               IF /\ ConvertsToInteger(profile.experience_years)
                  /\ profile.experience_years \notin {PyInt(0), PyStr(sZero)}
               THEN LevelRule(IntOf(profile.experience_years))
               ELSE 0

\* 5 years and a senior title: +5
C21_Witness ==
    /\ pc = "score_done"
    /\ profile.experience_years = PyInt(5)
    /\ TitleHas({sSenior})
    /\ ExperienceContribution = 5

-----------------------------------------------------------------------------
\* C22: a structured skill, certification or language record that exposes the
\* value X under either of its name-like fields contributes to score_relevance
\* exactly what the plain string X contributes, for every job.
C22_RecordScoresAsString ==
    pc = "rescored" => relevance2 = relevance

\* ---------------------------------------------------------------------
\* C23-C25: sessions
\* ---------------------------------------------------------------------

\* request r was a /build_profile that answered success for session sid
BuildSucceeded(r, sid) ==
    /\ handlers[r].kind = "build"
    /\ handlers[r].sid = sid
    /\ handlers[r].pc = "done"
    /\ handlers[r].status = 200

\* C23: an /ask_llm request that passed session validation and whose LLM
\* call gave its JSON object ends with exactly one response appended to its
\* session and status 200, whatever the other requests did meanwhile.
C23_ValidatedAskAppends ==
    \A r \in RequestIds :
        (handlers[r].kind = "ask" /\ handlers[r].pc = "done" /\ handlers[r].llm = "ok")
            => (handlers[r].status = 200 /\ handlers[r].appended = 1)

\* request r is validated in this step
Validated(r) == handlers[r].pc = "idle" /\ handlers'[r].pc # "idle"

\* request r is rejected with status 400 in this step
Rejected400(r) == handlers'[r].pc = "done" /\ handlers'[r].status = 400

\* C24: a session id is in session storage exactly from the start_session
\* that created it to the first /build_profile that succeeds for it; a
\* request is accepted only with an id in storage, a request validated
\* with an id that is not in storage (never created, or removed by a
\* successful /build_profile) is rejected with 400, and a /build_profile on
\* a session with no responses is rejected with 400 and leaves storage as
\* it was.
C24_SessionLifetime ==
    /\ [](\A sid \in SessionIds :
              sid \in session_storage
                  <=> (session_objects[sid].created
                       /\ ~\E q \in RequestIds : BuildSucceeded(q, sid)))
    /\ [][\A r \in RequestIds :
              Validated(r) =>
                  LET sid == handlers'[r].sid IN
                  /\ ~Rejected400(r) => sid \in session_storage
                  /\ sid \notin session_storage => Rejected400(r)
                  /\ (\E q \in RequestIds : BuildSucceeded(q, sid)) => Rejected400(r)
                  /\ (/\ handlers'[r].kind = "build"
                      /\ sid \in session_storage
                      /\ session_objects[sid].responses = 0)
                         => (Rejected400(r) /\ session_storage' = session_storage)]_vars

\* a /build_profile on the empty session was rejected and the session went
\* on, a /build_profile then succeeded for it, and a /build_profile that
\* arrived after that one was rejected with 400
C24_Witness ==
    \E sid \in SessionIds, e, q, r \in RequestIds :
        /\ e < q /\ q < r
        /\ handlers[e].kind = "build" /\ handlers[e].sid = sid /\ handlers[e].status = 400
        /\ BuildSucceeded(q, sid)
        /\ handlers[r].kind = "build" /\ handlers[r].sid = sid /\ handlers[r].status = 400
        /\ session_objects[sid].responses > 0
        /\ sid \notin session_storage

\* C25: a session in session storage has metadata.completed = true only if
\* a /build_profile for it succeeded.
C25_CompletedMeansBuilt ==
    \A sid \in session_storage :
        session_objects[sid].completed => \E r \in RequestIds : BuildSucceeded(r, sid)

\* ---------------------------------------------------------------------
\* C26: the ASR model
\* ---------------------------------------------------------------------

\* C26: however the load_asr_model calls interleave, the ASR model is
\* constructed at most once, a call is at the check and the load only
\* while it holds asr_lock, and every call that returns returns the one
\* loaded model.
C26_LoadedOnce ==
    /\ asr_loads <= 1
    /\ \A c \in CallerIds :
           asr_tasks[c].pc \in {"body", "exit", "unwinding"} => asr_lock = c
    /\ \A c \in CallerIds :
           asr_tasks[c].pc = "done" => (asr_tasks[c].model = asr_model /\ asr_model # 0)
    /\ \A c, d \in CallerIds :
           (asr_tasks[c].pc = "done" /\ asr_tasks[d].pc = "done")
               => asr_tasks[c].model = asr_tasks[d].model

\* one call has returned the loaded model, a second holds the lock and is
\* at the check with the model loaded, a third waits for the lock
C26_Witness ==
    \E c, d, e \in CallerIds :
        /\ asr_tasks[c].pc = "done" /\ asr_tasks[c].model = 1
        /\ asr_tasks[d].pc = "body" /\ asr_lock = d /\ asr_model = 1
        /\ asr_tasks[e].pc = "acquire"
====
